---- MODULE Spec2Model ----
(***************************************************************************)
(* flashcrawl: the crawl request handlers.                                 *)
(*                                                                         *)
(* Two handleCrawl implementations of the repository are modelled:         *)
(*   "browserService"  src/src/services/browserService.js:17-151           *)
(*                     (fresh browser per request, one retry)              *)
(*   "crawl"           src/src/utils/markdown.js:404-627                   *)
(*                     (navigation loop, download detection)               *)
(* One request is followed from the router's call to the end of the        *)
(* handler.  The browser library (launch, newContext, newPage, goto,       *)
(* close) and the target site are the environment: every outcome they can  *)
(* produce is a nondeterministic choice.                                   *)
(***************************************************************************)
EXTENDS Integers, Sequences, FiniteSets, TLC

VARIABLES
  handler,             \* which handleCrawl the router is wired to
  req,                 \* the incoming request (method, url parameter)
  pc,                  \* position of the handler
  targetUrl,           \* targetUrl.href, <<>> before validation
  browser, context, page,   \* the handler's locals: object id, 0 = undefined/null
  objs,                \* every browser/context/page object created so far
  retried,             \* browserService: let retried
  err,                 \* the error in flight (thrown, not yet caught)
  navigationAttempts,  \* crawl: let navigationAttempts
  navigationResponse,  \* the response of the last resolved goto, NoResponse if none
  finalUrl,            \* crawl: let finalUrl
  processedAsPdf,      \* crawl: let processedAsPdf
  upstreamStatus,      \* crawl: let upstreamStatus
  result,              \* what the processing path produced
  sent,                \* responses written to res, in order
  totalCrawls, successfulCrawls,   \* statusTracker counters
  log,                 \* history of the operations performed, in order
  redirectChain,       \* browserService: let redirectChain
  extraction,          \* what the last call of extractHtmlContent did
  redirectLimitExceeded, redirectCountObserved,   \* server.js: locals of the handler
  request,             \* request.redirectChain().length of the navigation request in flight
  challenge,           \* the verification challenge of the page: "none", "shown", "cleared"
  elapsed,             \* Date.now() - start in waitForHumanVerification, ms
  poll,                \* what waitForHumanVerification has done so far
  verificationResult,  \* what waitForHumanVerification returned
  input,               \* markdown.js: the argument of the function applied
  output,              \* markdown.js: what it returned
  reapplied,           \* markdown.js: what it returned for its own output
  results,             \* the results of processHtml and processPdfBuffer so far
  browserPromise,      \* browserManager.js: let browserPromise, 0 = null
  lastError,           \* browserManager.js: let lastError, "" = null
  promises,            \* the promises getBrowser created, in order
  browsers,            \* the browsers launched or attached to, in order
  acquired,            \* what the getBrowser calls of other callers returned
  instances,           \* the outcomes of the createNewBrowserInstance calls
  closings,            \* the closeSharedBrowser calls and their positions
  sharedBrowser,       \* browserService.js (shared variant): let sharedBrowser
  crawls,              \* the contexts the shared-mode crawls asked for
  created,             \* htmlHandler.js handleRequest: let created
  crawlers,            \* the locals of the concurrent shared-mode requests
  statusNotes,         \* statusTracker.js: const statusNotes
  snapshot,            \* the objects getSnapshot() returned, in order
  metadata,            \* server.js, crawlService.js: what the metadata was read from
  fullHtml             \* server.js, crawlService.js: what page.content() was read from

vars == <<handler, req, pc, targetUrl, browser, context, page, objs, retried,
          err, navigationAttempts, navigationResponse, finalUrl, processedAsPdf,
          upstreamStatus, result, sent, totalCrawls, successfulCrawls, log,
          redirectChain, extraction, redirectLimitExceeded, redirectCountObserved,
          request, challenge, elapsed, poll, verificationResult,
          input, output, reapplied, results,
          browserPromise, lastError, promises, browsers, acquired, instances,
          closings, sharedBrowser, crawls,
          created, crawlers, statusNotes, snapshot, metadata, fullHtml>>

\* the variables of the handlers with a verification poller (server.js, crawlService.js)
verificationVars ==
  <<redirectLimitExceeded, redirectCountObserved, request, challenge, elapsed,
    poll, verificationResult>>

\* the arguments and the results of the functions of utils/markdown.js
markdownVars == <<input, output, reapplied, results>>

\* no function of utils/markdown.js has been applied
NoMarkdown == input = <<>> /\ output = <<>> /\ reapplied = <<>> /\ results = <<>>

\* the state of services/browserManager.js and of the module that shares its browser
managerVars ==
  <<browserPromise, lastError, promises, browsers, acquired, instances, closings,
    sharedBrowser, crawls>>

\* browserManager.js as loaded: no promise, no error, nothing launched
NoManager ==
  /\ browserPromise = 0
  /\ lastError = ""
  /\ promises = <<>> /\ browsers = <<>>
  /\ acquired = <<>> /\ instances = <<>> /\ closings = <<>>
  /\ sharedBrowser = [status |-> "unloaded", promise |-> 0, browser |-> 0]
  /\ crawls = <<>>

\* the locals of htmlHandler.handleRequest and of the shared-mode requests,
\* and the state of statusTracker.js
serviceVars == <<created, crawlers, statusNotes, snapshot>>

\* statusNotes as statusTracker.js initialises it (the counters and the last
\* status and error)
NoNotes ==
  [totalCrawls |-> 0, successfulCrawls |-> 0, failedCrawls |-> 0,
   pdfAttempts |-> 0, pdfConversions |-> 0, pdfConversionFailures |-> 0,
   lastStatusCode |-> 0, lastError |-> "null"]

\* no handleRequest call, no shared-mode request, nothing recorded
NoService ==
  /\ created = FALSE
  /\ crawlers = <<>>
  /\ statusNotes = NoNotes
  /\ snapshot = <<>>

\* the state of the page the handlers of server.js and crawlService.js read
\* the metadata and the content from: "none" before the read, "challenge" for
\* the verification interstitial, "clear" for the page itself
readVars == <<metadata, fullHtml>>

NoReads == metadata = "none" /\ fullHtml = "none"

----------------------------------------------------------------------------
(* Program constants and model bounds *)

CHALLENGE_MAX_REFRESHES == 2

\* number of distinct URLs the target site answers from
MaxResponseUrls == 2

----------------------------------------------------------------------------
(* Strings are token sequences: a URL "https://h/doc.pdf?x=1" is           *)
(* <<"https:", "//h", "/doc", ".pdf", "?", "x=1">>.                        *)

Undefined == [def |-> FALSE, s |-> <<>>]
Str(s) == [def |-> TRUE, s |-> s]

UrlA == <<"http:", "//h", "/a">>
UrlB == <<"http:", "//h", "/b">>
UrlC == <<"https:", "//h", "/c">>
UrlPdf == <<"https:", "//h", "/doc", ".pdf">>
UrlPdfQuery == <<"http:", "//h", "/doc", ".PDF", "?", "x=1">>
AboutBlank == <<"about:", "blank">>

\* the url parameters a client can send
UrlParams ==
  { Undefined, Str(<<>>), Str(<<" ">>), Str(<<"not-a-url">>),
    Str(<<"/", "relative">>), Str(<<"ftp:", "//h", "/a">>),
    Str(<<"file:", "///etc/passwd">>), Str(<<"HTTP:", "//h", "/a">>),
    Str(UrlPdf), Str(UrlPdfQuery), Str(<<" ">> \o UrlA \o <<" ">>) }

\* the requests of the model: GET /crawl?url=.. and POST /crawl
Requests ==
  [method : {"GET"}, url : UrlParams]
    \cup [method : {"POST"}, url : {Undefined, Str(UrlA)}]

\* the URLs a navigation response can carry (after redirects)
SiteUrls == <<UrlA, UrlB, UrlC, <<"https:", "//h", "/d">>, <<"https:", "//h", "/e">> >>
ResponseUrls == {SiteUrls[i] : i \in 1..MaxResponseUrls}
Statuses == {200, 503}
ContentTypes == {"text/html; charset=utf-8", "application/pdf"}

NoResponse == [ok |-> FALSE, url |-> <<>>, status |-> 0, ctype |-> ""]
Responses == [ok : {TRUE}, url : ResponseUrls, status : Statuses, ctype : ContentTypes]

----------------------------------------------------------------------------
(* String.prototype.trim and new URL(), on token strings *)

RECURSIVE TrimLeft(_)
TrimLeft(s) == IF s # <<>> /\ Head(s) = " " THEN TrimLeft(Tail(s)) ELSE s

RECURSIVE TrimRight(_)
TrimRight(s) ==
  IF s # <<>> /\ s[Len(s)] = " " THEN TrimRight(SubSeq(s, 1, Len(s) - 1)) ELSE s

trim(s) == TrimRight(TrimLeft(s))

Schemes == {"http:", "https:", "ftp:", "file:", "about:", "HTTP:", "HTTPS:"}

ToLowerCase(tok) ==
  CASE tok = "HTTP:" -> "http:"
    [] tok = "HTTPS:" -> "https:"
    [] tok = ".PDF" -> ".pdf"
    [] tok = "UTM_" -> "utm_"
    [] tok = "Comment" -> "comment"
    [] OTHER -> tok

\* new URL(s): strips surrounding spaces, needs a scheme, lower-cases it.
\* parsed.ok = FALSE stands for the TypeError it throws.
URL(s) ==
  LET t == trim(s) IN
  IF t # <<>> /\ Head(t) \in Schemes
    THEN [ok |-> TRUE, protocol |-> ToLowerCase(Head(t)),
          href |-> <<ToLowerCase(Head(t))>> \o Tail(t)]
    ELSE [ok |-> FALSE, protocol |-> "", href |-> <<>>]

\* mutant: /\.pdf$/i, a query string or fragment after .pdf is not accepted
pdfPathPatternAtEndOnly(s) ==
  s # <<>> /\ ToLowerCase(s[Len(s)]) = ".pdf"

\* /\.pdf(?:$|[?#])/i.test(s)
pdfPathPattern(s) ==
  \E i \in 1..Len(s) :
    /\ ToLowerCase(s[i]) = ".pdf"
    /\ (i = Len(s) \/ s[i + 1] \in {"?", "#"})

----------------------------------------------------------------------------
(* Errors: the message and the type field; Has(msg, f) is the regex or     *)
(* includes() test of message msg for fragment f.                          *)

MsgContextDestroyed == "Execution context was destroyed, most likely because of a navigation"
MsgNavigating == "Unable to retrieve content because the page is navigating"
MsgSessionClosed == "Protocol error (Runtime.callFunctionOn): Session closed"
MsgProtocolError == "ProtocolError: Connection closed"
MsgNet == "net::ERR_CONNECTION_RESET"
MsgNavTimeout == "Navigation timeout of 60000 ms exceeded"
MsgTimeout == "Timeout 60000ms exceeded"
MsgTargetClosed == "Target page, context or browser has been closed"
MsgDownload == "Download is starting"
MsgNoResponse == "No response received from target URL"
MsgPdfFetch == "PDF fetch failed (404)"
MsgEmptyPdf == "Empty PDF response"
MsgLaunch == "Failed to launch: executable doesn't exist"
MsgSocket == "socket hang up"

Fragments(msg) ==
  CASE msg = MsgContextDestroyed -> {"execution context was destroyed", "context was destroyed"}
    [] msg = MsgNavigating -> {"unable to retrieve content because the page is navigating"}
    [] msg = MsgSessionClosed -> {"protocol error", "session closed"}
    [] msg = MsgProtocolError -> {"protocolerror"}
    [] msg = MsgNet -> {"net::"}
    [] msg = MsgNavTimeout -> {"navigation timeout"}
    [] msg = MsgTargetClosed -> {"target page, context or browser has been closed"}
    [] msg = MsgDownload -> {"Download is starting"}
    [] OTHER -> {}

Has(msg, f) == f \in Fragments(msg)

Error(m) == [message |-> m, type |-> "Error"]
ClosedError(m) == [message |-> m, type |-> "closed"]
NoError == [message |-> "", type |-> ""]

----------------------------------------------------------------------------
(* Browser objects.  An object is closed when close() has been called on   *)
(* it, when its owner (context, browser) was closed, or, for a page, when  *)
(* the page closed by itself.                                              *)

Object(kind, owner, run) ==
  [kind |-> kind, owner |-> owner, open |-> TRUE, closeCalled |-> FALSE,
   selfClosed |-> FALSE, run |-> run, url |-> IF kind = "page" THEN AboutBlank ELSE <<>>]

NextId == Len(objs) + 1

Owns(os, id, i) ==
  \/ os[i].owner = id
  \/ os[i].owner # 0 /\ os[os[i].owner].owner = id

\* x.close(): closes the object and everything it owns
close(os, id) ==
  [i \in DOMAIN os |->
     IF i = id THEN [os[i] EXCEPT !.open = FALSE, !.closeCalled = TRUE]
     ELSE IF Owns(os, id, i) THEN [os[i] EXCEPT !.open = FALSE]
     ELSE os[i]]

\* x?.close() for each x of ids, in order
RECURSIVE closeAll(_, _)
closeAll(os, ids) ==
  IF ids = <<>> THEN os
  ELSE closeAll(IF Head(ids) = 0 THEN os ELSE close(os, Head(ids)), Tail(ids))

isClosed(id) == ~objs[id].open

----------------------------------------------------------------------------
(* History *)

Runs == Cardinality({i \in DOMAIN log : log[i].op = "runOnce"})
CurRun == IF handler = "crawl" THEN 1 ELSE Runs

Ev(op, obj, url) ==
  [op |-> op, obj |-> obj, url |-> url, run |-> CurRun,
   error |-> NoError, resp |-> NoResponse]

ErrEv(op, obj, e) == [Ev(op, obj, <<>>) EXCEPT !.error = e]
RespEv(obj, r) == [Ev("response", obj, r.url) EXCEPT !.resp = r]

RECURSIVE closeEvents(_)
closeEvents(ids) ==
  IF ids = <<>> THEN <<>>
  ELSE (IF Head(ids) = 0 THEN <<>> ELSE <<Ev("close", Head(ids), <<>>)>>)
       \o closeEvents(Tail(ids))

----------------------------------------------------------------------------
(* Responses written to res *)

\* mutant: every failure is answered with the status of a generic failure
ErrorResponseGeneric(status, error, details) ==
  [status |-> 500, error |-> error, details |-> details, stack |-> FALSE,
   payload |-> "none", statusCode |-> 0]

\* an error response; details is the message the details string holds, and
\* stack tells whether the stack frames of the error follow it
ErrorResponse(status, error, details) ==
  [status |-> status, error |-> error, details |-> details, stack |-> FALSE,
   payload |-> "none", statusCode |-> 0]

SuccessResponse(kind, statusCode) ==
  [status |-> 200, error |-> "", details |-> "", stack |-> FALSE,
   payload |-> kind, statusCode |-> statusCode]

NoResult == [kind |-> "none", status |-> 0]

\* res.status(..).json(..)
json(responses, r) == Append(responses, r)

\* mutant: the failure is logged but never answered
crawlFailedSilently(responses, e) == responses

\* value.stack of an Error: "Error: <message>" followed by the stack frames
stackOf(value) == [text |-> value.message, frames |-> TRUE]

\* formatError(value): value.stack || value.message || value.toString() of
\* an Error, a string as it is
formatError(value) ==
  IF value.type # "" THEN stackOf(value) ELSE [text |-> value.message, frames |-> FALSE]

\* browserService.js: String(err.message ?? err)
messageOf(value) == [text |-> value.message, frames |-> FALSE]

\* res.status(500).json({ error: 'Failed to crawl URL', details: .. }): the
\* details are String(err.message ?? err) in browserService.js and
\* formatError(err) in the other handlers
crawlFailed(responses, e) ==
  LET message == IF handler = "browserService" THEN messageOf(e) ELSE formatError(e) IN
  json(responses, [ErrorResponse(500, "Failed to crawl URL", message.text)
                     EXCEPT !.stack = message.frames])

----------------------------------------------------------------------------
(* What the environment can answer *)

LaunchErrors == {MsgLaunch}
ContextErrors == {MsgTargetClosed}
GotoErrors ==
  {MsgDownload, MsgNet, MsgNavTimeout, MsgTimeout, MsgSessionClosed, MsgProtocolError}
HtmlErrors == {MsgNavigating, MsgTimeout}
PdfFetchErrors == {MsgPdfFetch, MsgSessionClosed}

\* extraction on page p can fail; on a closed page it always does
HtmlFailures(p) ==
  IF isClosed(p) THEN {Error(MsgTargetClosed)}
  ELSE {Error(m) : m \in HtmlErrors} \cup {ClosedError(MsgSocket)}

\* page.evaluate of the extractor on page p: its result, or an error
Outcome(e) == [ok |-> FALSE, error |-> e]
Done == [ok |-> TRUE, error |-> NoError]

EvaluateOutcomes(p) ==
  IF isClosed(p) THEN {Outcome(Error(MsgTargetClosed))}
  ELSE {Done, Outcome(Error(MsgContextDestroyed))} \cup {Outcome(e) : e \in HtmlFailures(p)}

\* page.content() on page p
ContentOutcomes(p) ==
  IF isClosed(p) THEN {Outcome(Error(MsgTargetClosed))}
  ELSE {Done, Outcome(Error(MsgNavigating))}

\* the request lineage of a response: the URL of response.request() first, then
\* the URLs of redirectedFrom(), back to the request that goto issued
Lineages(final, requested) ==
  IF final = requested THEN {<<requested>>}
  ELSE {<<final, requested>>, <<final, UrlC, requested>>}

\* page.goto on page p: a response, null, or an error; a closed page only fails
GotoOutcomes(p) ==
  IF isClosed(p) THEN {[kind |-> "error", resp |-> NoResponse, error |-> Error(MsgTargetClosed)]}
  ELSE {[kind |-> "response", resp |-> r, error |-> NoError] : r \in Responses}
       \cup {[kind |-> "null", resp |-> NoResponse, error |-> NoError]}
       \cup {[kind |-> "error", resp |-> NoResponse, error |-> Error(m)] : m \in GotoErrors}

----------------------------------------------------------------------------
(* Decisions of the handlers *)

\* !url
missingUrl(u) == ~u.def \/ u.s = <<>>

\* mutant: the protocol list also admits ftp:
supportedProtocolWithFtp(protocol) == protocol \in {"http:", "https:", "ftp:"}

\* ['http:', 'https:'].includes(targetUrl.protocol)
supportedProtocol(protocol) == protocol \in {"http:", "https:"}

\* mutant: /closed/i instead of /session closed/i
isRecoverableErrorAnyClosed(e) ==
  \/ Has(e.message, "execution context was destroyed")
  \/ Has(e.message, "context was destroyed")
  \/ Has(e.message, "unable to retrieve content because the page is navigating")
  \/ Has(e.message, "cannot get world")
  \/ Has(e.message, "runtime.addbinding")
  \/ Has(e.message, "session closed")
  \/ Has(e.message, "target page, context or browser has been closed")
  \/ Has(e.message, "protocol error")
  \/ e.type = "closed"

\* browserService.js isRecoverableError
isRecoverableError(e) ==
  \/ Has(e.message, "execution context was destroyed")
  \/ Has(e.message, "context was destroyed")
  \/ Has(e.message, "unable to retrieve content because the page is navigating")
  \/ Has(e.message, "cannot get world")
  \/ Has(e.message, "runtime.addbinding")
  \/ Has(e.message, "session closed")
  \/ Has(e.message, "protocol error")
  \/ e.type = "closed"

\* if (!retried && isRecoverableError(err))
mayRetry(r, e) == ~r /\ isRecoverableError(e)

\* mutant: the content-type test never matches
isPdfContentTypeNever(ctype) == FALSE

\* ctype.includes('application/pdf'), /application\/pdf/i.test(ctype)
isPdfContentType(ctype) == ctype = "application/pdf"

\* navigationErr?.message?.includes('Download is starting')
isDownloadStarting(e) == Has(e.message, "Download is starting")

\* /net::|Navigation timeout|ProtocolError|Target page, context or browser has been closed/i
retriable(message) ==
  \/ Has(message, "net::")
  \/ Has(message, "navigation timeout")
  \/ Has(message, "protocolerror")
  \/ Has(message, "target page, context or browser has been closed")

\* while (navigationAttempts <= constants.CHALLENGE_MAX_REFRESHES)
loopCondition(n) == n <= CHALLENGE_MAX_REFRESHES

\* mutant: the attempts left are not looked at
hasAttemptsRemainingAlways(n) == TRUE

\* hasAttemptsRemaining = navigationAttempts <= constants.CHALLENGE_MAX_REFRESHES
hasAttemptsRemaining(n) == n <= CHALLENGE_MAX_REFRESHES

\* mutant: the loop navigates to the requested URL again
navigationTargetRequested(final, target) == target

\* the URL handed to page.goto in the navigation loop
navigationTarget(final, target) == final

\* mutant: any response ends the loop
navigationSettledAlways(pdf, status) == TRUE

\* if (processedAsPdf || upstreamStatus < 400) break
navigationSettled(pdf, status) == pdf \/ status < 400

\* mutant: the missing response is not detected
noResponseReceivedNever(pdf, response) == FALSE

\* if (!processedAsPdf && !navigationResponse)
noResponseReceived(pdf, response) == ~pdf /\ ~response.ok

\* mutant: the PDF is always fetched from the requested URL
pdfUrlStringRequested(final, target) == target

\* the URL the PDF is fetched from: finalUrl if it is http(s), else targetUrl.href
pdfUrlString(final, target) ==
  LET candidate == URL(final) IN
  IF candidate.ok /\ candidate.protocol \in {"http:", "https:"}
    THEN candidate.href ELSE target

\* reportedStatus
reportedStatus(pdf, status) ==
  IF pdf THEN 200
  ELSE IF status = 0 \/ status < 200 THEN 200
  ELSE IF status >= 400 THEN 200
  ELSE status

\* mutant: chain.push(req.url()) instead of chain.unshift(req.url())
RECURSIVE walkRedirectsPushing(_, _)
walkRedirectsPushing(request_, chain) ==
  IF request_ = <<>> THEN chain
  ELSE walkRedirectsPushing(Tail(request_), Append(chain, Head(request_)))

\* while (req) { chain.unshift(req.url()); req = req.redirectedFrom() }
RECURSIVE walkRedirects(_, _)
walkRedirects(request_, chain) ==
  IF request_ = <<>> THEN chain
  ELSE walkRedirects(Tail(request_), <<Head(request_)>> \o chain)

\* redirectChain = chain.length ? chain : [finalUrl]
captureRedirectChain(lineage, final) ==
  LET chain == walkRedirects(lineage, <<>>) IN
  IF Len(chain) # 0 THEN chain ELSE <<final>>

\* mutant: the destroyed execution context is not recognised
contextDestroyedNever(message) == FALSE

\* /Execution context was destroyed/i.test(msg) || /context was destroyed/i.test(msg)
contextDestroyed(message) ==
  \/ Has(message, "execution context was destroyed")
  \/ Has(message, "context was destroyed")

NoExtraction ==
  [ok |-> FALSE, evaluated |-> NoError, fallback |-> FALSE, metadata |-> "none",
   error |-> NoError]

\* extractHtmlContent: the in-page evaluation, and page.content() in its place
\* when the execution context was destroyed
extractHtmlContent(evaluated, content) ==
  IF evaluated.ok
    THEN [NoExtraction EXCEPT !.ok = TRUE, !.metadata = "extracted"]
  ELSE IF contextDestroyed(evaluated.error.message)
    THEN IF content.ok
           THEN [NoExtraction EXCEPT !.ok = TRUE, !.evaluated = evaluated.error,
                                     !.fallback = TRUE, !.metadata = "approximate"]
           ELSE [NoExtraction EXCEPT !.evaluated = evaluated.error,
                                     !.fallback = TRUE, !.error = content.error]
  ELSE [NoExtraction EXCEPT !.evaluated = evaluated.error, !.error = evaluated.error]

\* waitForHumanVerification: nothing read yet, nothing returned yet
NotPolled == [reads |-> 0, sleeps |-> 0, failed |-> FALSE, lastRead |-> "none", readAt |-> 0]
NoVerification == [returned |-> FALSE, cleared |-> FALSE, waitedMs |-> 0]

\* mutant: an upstream 4xx/5xx becomes the status of the crawl response
responseStatusUpstream(upstream) == IF upstream >= 400 THEN upstream ELSE 200

\* markdown.js:608  res.status(200).json(responsePayload)
responseStatus(upstream) == 200

\* mutant: the browser is left out of the cleanup
cleanupTargetsWithoutBrowser(p, c, b) == <<p, c>>

\* mutant: nothing is closed
cleanupTargetsNone(p, c, b) == <<>>

\* the objects of  Promise.all([page?.close(), context?.close(), browser?.close()])
cleanupTargets(p, c, b) == <<p, c, b>>

----------------------------------------------------------------------------
(* Initial state: a request arrives at one of the two handlers *)

Init ==
  /\ handler \in {"browserService", "crawl"}
  /\ req \in Requests
  /\ pc = "start"
  /\ targetUrl = <<>>
  /\ browser = 0 /\ context = 0 /\ page = 0
  /\ objs = <<>>
  /\ retried = FALSE
  /\ err = NoError
  /\ navigationAttempts = 0
  /\ navigationResponse = NoResponse
  /\ finalUrl = <<>>
  /\ processedAsPdf = FALSE
  /\ upstreamStatus = 0
  /\ result = NoResult
  /\ sent = <<>>
  /\ totalCrawls = 0 /\ successfulCrawls = 0
  /\ log = <<>>
  /\ redirectChain = <<>>
  /\ extraction = NoExtraction
  /\ redirectLimitExceeded = FALSE /\ redirectCountObserved = 0
  /\ request = 0
  /\ challenge = "none"
  /\ elapsed = 0
  /\ poll = NotPolled
  /\ verificationResult = NoVerification
  /\ NoMarkdown
  /\ NoManager
  /\ NoService
  /\ NoReads

Throw(e) == err' = e /\ pc' = "catch"

----------------------------------------------------------------------------
(* browserService.js handleCrawl *)

\* lines 17-40: read and validate the url parameter
SvcValidate ==
  /\ handler = "browserService" /\ pc = "start"
  /\ LET url == IF req.url.def THEN Str(trim(req.url.s)) ELSE Undefined
         parsed == URL(url.s)
         reject(error) ==
           /\ sent' = json(sent, ErrorResponse(400, error, ""))
           /\ log' = Append(log, Ev("send", 0, <<>>))
           /\ pc' = "done"
           /\ UNCHANGED <<targetUrl, totalCrawls>>
     IN
       IF missingUrl(url)
         THEN reject(IF req.method = "GET" THEN "Missing url query parameter"
                     ELSE "Missing url parameter")
       ELSE IF ~parsed.ok THEN reject("Invalid URL")
       ELSE IF ~supportedProtocol(parsed.protocol)
         THEN reject("Only http and https protocols are supported")
       ELSE /\ targetUrl' = parsed.href
            /\ totalCrawls' = totalCrawls + 1
            /\ pc' = "launch"
            /\ UNCHANGED <<sent, log>>
  /\ UNCHANGED <<handler, req, browser, context, page, objs, retried, err,
                 navigationAttempts, navigationResponse, finalUrl, processedAsPdf,
                 upstreamStatus, result, successfulCrawls>>
  /\ UNCHANGED <<redirectChain, extraction>>
  /\ UNCHANGED <<verificationVars, markdownVars, managerVars, serviceVars, readVars>>

\* runOnce, line 56: browser = await createNewBrowserInstance()
SvcLaunch ==
  /\ handler = "browserService" /\ pc = "launch"
  /\ redirectChain' = <<>>
  /\ LET run == Runs + 1
         started == Append(log, [Ev("runOnce", 0, <<>>) EXCEPT !.run = run])
     IN
       \/ /\ objs' = Append(objs, Object("browser", 0, run))
          /\ browser' = NextId
          /\ log' = Append(started, [Ev("launch", NextId, <<>>) EXCEPT !.run = run])
          /\ pc' = "newContext"
          /\ UNCHANGED err
       \/ /\ \E m \in LaunchErrors : Throw(Error(m))
          /\ log' = started
          /\ UNCHANGED <<objs, browser>>
  /\ UNCHANGED <<handler, req, targetUrl, context, page, retried,
                 navigationAttempts, navigationResponse, finalUrl, processedAsPdf,
                 upstreamStatus, result, sent, totalCrawls, successfulCrawls>>
  /\ UNCHANGED <<extraction>>
  /\ UNCHANGED <<verificationVars, markdownVars, managerVars, serviceVars, readVars>>

\* runOnce, lines 57-68: context = await browser.newContext(..), PDF check by URL
SvcNewContext ==
  /\ handler = "browserService" /\ pc = "newContext"
  /\ \/ /\ objs' = Append(objs, Object("context", browser, CurRun))
        /\ context' = NextId
        /\ log' = Append(log, Ev("newContext", NextId, <<>>))
        /\ pc' = IF pdfPathPattern(targetUrl) THEN "pdfHandle" ELSE "newPage"
        /\ UNCHANGED err
     \/ /\ \E m \in ContextErrors : Throw(Error(m))
        /\ UNCHANGED <<objs, context, log>>
  /\ UNCHANGED <<handler, req, targetUrl, browser, page, retried,
                 navigationAttempts, navigationResponse, finalUrl, processedAsPdf,
                 upstreamStatus, result, sent, totalCrawls, successfulCrawls>>
  /\ UNCHANGED <<redirectChain, extraction>>
  /\ UNCHANGED <<verificationVars, markdownVars, managerVars, serviceVars, readVars>>

\* runOnce, line 76: page = await context.newPage()
SvcNewPage ==
  /\ handler = "browserService" /\ pc = "newPage"
  /\ \/ /\ objs' = Append(objs, Object("page", context, CurRun))
        /\ page' = NextId
        /\ log' = Append(log, Ev("newPage", NextId, <<>>))
        /\ pc' = "goto"
        /\ UNCHANGED err
     \/ /\ \E m \in ContextErrors : Throw(Error(m))
        /\ UNCHANGED <<objs, page, log>>
  /\ UNCHANGED <<handler, req, targetUrl, browser, context, retried,
                 navigationAttempts, navigationResponse, finalUrl, processedAsPdf,
                 upstreamStatus, result, sent, totalCrawls, successfulCrawls>>
  /\ UNCHANGED <<redirectChain, extraction>>
  /\ UNCHANGED <<verificationVars, markdownVars, managerVars, serviceVars, readVars>>

\* runOnce, lines 77-103: navigate, check the response, classify by content-type
SvcGoto ==
  /\ handler = "browserService" /\ pc = "goto"
  /\ \E o \in GotoOutcomes(page) :
       LET went == Append(log, Ev("goto", page, targetUrl)) IN
       CASE o.kind = "response" ->
              /\ navigationResponse' = o.resp
              /\ finalUrl' = o.resp.url
              /\ \E lineage \in Lineages(o.resp.url, targetUrl) :
                   redirectChain' = captureRedirectChain(lineage, o.resp.url)
              /\ objs' = [objs EXCEPT ![page].url = o.resp.url]
              /\ log' = Append(went, RespEv(page, o.resp))
              /\ pc' = IF isPdfContentType(o.resp.ctype) THEN "pdfHandle" ELSE "htmlHandle"
              /\ UNCHANGED err
         [] o.kind = "null" ->
              /\ navigationResponse' = NoResponse
              /\ log' = Append(went, Ev("null", page, <<>>))
              /\ Throw(Error(MsgNoResponse))
              /\ UNCHANGED <<finalUrl, objs, redirectChain>>
         [] o.kind = "error" ->
              /\ log' = Append(went, ErrEv("gotoError", page, o.error))
              /\ Throw(o.error)
              /\ UNCHANGED <<navigationResponse, finalUrl, objs, redirectChain>>
  /\ UNCHANGED <<handler, req, targetUrl, browser, context, page, retried,
                 navigationAttempts, processedAsPdf, upstreamStatus, result, sent,
                 totalCrawls, successfulCrawls>>
  /\ UNCHANGED <<extraction>>
  /\ UNCHANGED <<verificationVars, markdownVars, managerVars, serviceVars, readVars>>

\* runOnce, lines 71 and 105: result = await pdfHandle({ context, .. })
SvcPdfHandle ==
  /\ handler = "browserService" /\ pc = "pdfHandle"
  /\ log' = Append(log, Ev("pdf", context, targetUrl))
  /\ \/ /\ result' = [kind |-> "pdf", status |-> 200]
        /\ pc' = "respond"
        /\ UNCHANGED err
     \/ /\ \E m \in PdfFetchErrors : Throw(Error(m))
        /\ UNCHANGED result
  /\ UNCHANGED <<handler, req, targetUrl, browser, context, page, objs, retried,
                 navigationAttempts, navigationResponse, finalUrl, processedAsPdf,
                 upstreamStatus, sent, totalCrawls, successfulCrawls>>
  /\ UNCHANGED <<redirectChain, extraction>>
  /\ UNCHANGED <<verificationVars, markdownVars, managerVars, serviceVars, readVars>>

\* runOnce, line 110: result = await htmlHandle({ context, page, response, .. })
SvcHtmlHandle ==
  /\ handler = "browserService" /\ pc = "htmlHandle"
  /\ log' = Append(log, Ev("html", page, targetUrl))
  /\ \E evaluated \in EvaluateOutcomes(page), content \in ContentOutcomes(page) :
       LET extracted == extractHtmlContent(evaluated, content) IN
         /\ extraction' = extracted
         /\ IF extracted.ok
              THEN /\ result' = [kind |-> "html", status |-> navigationResponse.status]
                   /\ pc' = "respond"
                   /\ UNCHANGED err
              ELSE /\ Throw(extracted.error)
                   /\ UNCHANGED result
  /\ UNCHANGED <<handler, req, targetUrl, browser, context, page, objs, retried,
                 navigationAttempts, navigationResponse, finalUrl, processedAsPdf,
                 upstreamStatus, sent, totalCrawls, successfulCrawls>>
  /\ UNCHANGED <<redirectChain>>
  /\ UNCHANGED <<verificationVars, markdownVars, managerVars, serviceVars, readVars>>

\* lines 116-120 and 132-136: runOnce returned, answer with the result
SvcRespond ==
  /\ handler = "browserService" /\ pc = "respond"
  /\ successfulCrawls' = successfulCrawls + 1
  /\ sent' = json(sent, SuccessResponse(result.kind, result.status))
  /\ log' = Append(log, Ev("send", 0, <<>>))
  /\ pc' = "finally"
  /\ UNCHANGED <<handler, req, targetUrl, browser, context, page, objs, retried,
                 err, navigationAttempts, navigationResponse, finalUrl,
                 processedAsPdf, upstreamStatus, result, totalCrawls>>
  /\ UNCHANGED <<redirectChain, extraction>>
  /\ UNCHANGED <<verificationVars, markdownVars, managerVars, serviceVars, readVars>>

\* lines 121-146: runOnce threw; retry once with fresh objects or answer 500
SvcCatch ==
  /\ handler = "browserService" /\ pc = "catch"
  /\ IF mayRetry(retried, err)
       THEN /\ retried' = TRUE
            /\ objs' = closeAll(objs, cleanupTargets(page, context, browser))
            /\ log' = Append(log, ErrEv("catch", 0, err))
                         \o closeEvents(cleanupTargets(page, context, browser))
            /\ page' = 0 /\ context' = 0 /\ browser' = 0
            /\ pc' = "launch"
            /\ UNCHANGED sent
       ELSE /\ sent' = crawlFailed(sent, err)
            /\ log' = log \o <<ErrEv("catch", 0, err), Ev("send", 0, <<>>)>>
            /\ pc' = "finally"
            /\ UNCHANGED <<retried, objs, page, context, browser>>
  /\ err' = NoError
  /\ UNCHANGED <<handler, req, targetUrl, navigationAttempts, navigationResponse,
                 finalUrl, processedAsPdf, upstreamStatus, result, totalCrawls,
                 successfulCrawls>>
  /\ UNCHANGED <<redirectChain, extraction>>
  /\ UNCHANGED <<verificationVars, markdownVars, managerVars, serviceVars, readVars>>

\* lines 148-150: finally
SvcFinally ==
  /\ handler = "browserService" /\ pc = "finally"
  /\ objs' = closeAll(objs, cleanupTargets(page, context, browser))
  /\ log' = log \o closeEvents(cleanupTargets(page, context, browser))
  /\ pc' = "done"
  /\ UNCHANGED <<handler, req, targetUrl, browser, context, page, retried, err,
                 navigationAttempts, navigationResponse, finalUrl, processedAsPdf,
                 upstreamStatus, result, sent, totalCrawls, successfulCrawls>>
  /\ UNCHANGED <<redirectChain, extraction>>
  /\ UNCHANGED <<verificationVars, markdownVars, managerVars, serviceVars, readVars>>

\* a page closes by itself (window.close(), crash of its renderer)
PageCloses ==
  /\ pc \notin {"start", "done"}
  /\ page # 0 /\ objs[page].open
  /\ objs' = [objs EXCEPT ![page].open = FALSE, ![page].selfClosed = TRUE]
  /\ UNCHANGED <<handler, req, pc, targetUrl, browser, context, page, retried, err,
                 navigationAttempts, navigationResponse, finalUrl, processedAsPdf,
                 upstreamStatus, result, sent, totalCrawls, successfulCrawls, log>>
  /\ UNCHANGED <<redirectChain, extraction>>
  /\ UNCHANGED <<verificationVars, markdownVars, managerVars, serviceVars, readVars>>

Service == SvcValidate \/ SvcLaunch \/ SvcNewContext \/ SvcNewPage \/ SvcGoto
             \/ SvcPdfHandle \/ SvcHtmlHandle \/ SvcRespond \/ SvcCatch \/ SvcFinally

----------------------------------------------------------------------------
(* markdown.js handleCrawl (the crawl handler with the navigation loop) *)

\* lines 405-426
CrValidate ==
  /\ handler = "crawl" /\ pc = "start"
  /\ LET url == req.url
         parsed == URL(url.s)
         reject(error) ==
           /\ sent' = json(sent, ErrorResponse(400, error, ""))
           /\ log' = Append(log, Ev("send", 0, <<>>))
           /\ pc' = "done"
           /\ UNCHANGED <<targetUrl, finalUrl>>
     IN
       IF missingUrl(url) THEN reject("Missing url query parameter")
       ELSE IF ~parsed.ok THEN reject("Invalid URL")
       ELSE IF ~supportedProtocol(parsed.protocol)
         THEN reject("Only http and https protocols are supported")
       ELSE /\ targetUrl' = parsed.href
            /\ finalUrl' = parsed.href
            /\ pc' = "launch"
            /\ UNCHANGED <<sent, log>>
  /\ UNCHANGED <<handler, req, browser, context, page, objs, retried, err,
                 navigationAttempts, navigationResponse, processedAsPdf,
                 upstreamStatus, result, totalCrawls, successfulCrawls>>
  /\ UNCHANGED <<redirectChain, extraction>>
  /\ UNCHANGED <<verificationVars, markdownVars, managerVars, serviceVars, readVars>>

\* line 432: browser = await launchStealthBrowser()
CrLaunch ==
  /\ handler = "crawl" /\ pc = "launch"
  /\ \/ /\ objs' = Append(objs, Object("browser", 0, 1))
        /\ browser' = NextId
        /\ log' = Append(log, Ev("launch", NextId, <<>>))
        /\ pc' = "newContext"
        /\ UNCHANGED err
     \/ /\ \E m \in LaunchErrors : Throw(Error(m))
        /\ UNCHANGED <<objs, browser, log>>
  /\ UNCHANGED <<handler, req, targetUrl, context, page, retried,
                 navigationAttempts, navigationResponse, finalUrl, processedAsPdf,
                 upstreamStatus, result, sent, totalCrawls, successfulCrawls>>
  /\ UNCHANGED <<redirectChain, extraction>>
  /\ UNCHANGED <<verificationVars, markdownVars, managerVars, serviceVars, readVars>>

\* lines 434-451, 499-501: new context, PDF check by URL
CrNewContext ==
  /\ handler = "crawl" /\ pc = "newContext"
  /\ \/ /\ objs' = Append(objs, Object("context", browser, 1))
        /\ context' = NextId
        /\ log' = Append(log, Ev("newContext", NextId, <<>>))
        /\ IF pdfPathPattern(targetUrl)
             THEN processedAsPdf' = TRUE /\ pc' = "afterNavigation"
             ELSE pc' = "newPage" /\ UNCHANGED processedAsPdf
        /\ UNCHANGED err
     \/ /\ \E m \in ContextErrors : Throw(Error(m))
        /\ UNCHANGED <<objs, context, log, processedAsPdf>>
  /\ UNCHANGED <<handler, req, targetUrl, browser, page, retried,
                 navigationAttempts, navigationResponse, finalUrl,
                 upstreamStatus, result, sent, totalCrawls, successfulCrawls>>
  /\ UNCHANGED <<redirectChain, extraction>>
  /\ UNCHANGED <<verificationVars, markdownVars, managerVars, serviceVars, readVars>>

\* lines 452-453: page = await context.newPage(); navigationAttempts = 0
CrNewPage ==
  /\ handler = "crawl" /\ pc = "newPage"
  /\ \/ /\ objs' = Append(objs, Object("page", context, 1))
        /\ page' = NextId
        /\ log' = Append(log, Ev("newPage", NextId, <<>>))
        /\ navigationAttempts' = 0
        /\ pc' = "navigate"
        /\ UNCHANGED err
     \/ /\ \E m \in ContextErrors : Throw(Error(m))
        /\ UNCHANGED <<objs, page, log, navigationAttempts>>
  /\ UNCHANGED <<handler, req, targetUrl, browser, context, retried,
                 navigationResponse, finalUrl, processedAsPdf,
                 upstreamStatus, result, sent, totalCrawls, successfulCrawls>>
  /\ UNCHANGED <<redirectChain, extraction>>
  /\ UNCHANGED <<verificationVars, markdownVars, managerVars, serviceVars, readVars>>

\* lines 455-498: one iteration of the navigation loop
CrNavigate ==
  /\ handler = "crawl" /\ pc = "navigate"
  /\ loopCondition(navigationAttempts)
  /\ navigationAttempts' = navigationAttempts + 1
  /\ \E o \in GotoOutcomes(page) :
       LET n == navigationAttempts + 1
           went == Append(log, Ev("goto", page, navigationTarget(finalUrl, targetUrl)))
           again == IF loopCondition(n) THEN "navigate" ELSE "afterNavigation"
       IN
       CASE o.kind = "error" /\ isDownloadStarting(o.error) ->
              /\ processedAsPdf' = TRUE
              /\ finalUrl' = IF objs[page].url # <<>> THEN objs[page].url ELSE targetUrl
              /\ IF ~isClosed(page)
                   THEN /\ objs' = close(objs, page)
                        /\ log' = Append(Append(went, ErrEv("gotoError", page, o.error)),
                                         Ev("close", page, <<>>))
                        /\ page' = 0
                   ELSE /\ log' = Append(went, ErrEv("gotoError", page, o.error))
                        /\ UNCHANGED <<objs, page>>
              /\ pc' = "afterNavigation"
              /\ UNCHANGED <<err, navigationResponse, upstreamStatus>>
         [] o.kind = "error" /\ ~isDownloadStarting(o.error) ->
              /\ log' = Append(went, ErrEv("gotoError", page, o.error))
              /\ IF retriable(o.error.message) /\ hasAttemptsRemaining(n)
                   THEN pc' = again /\ UNCHANGED err
                   ELSE Throw(o.error)
              /\ UNCHANGED <<objs, page, navigationResponse, finalUrl,
                             processedAsPdf, upstreamStatus>>
         [] o.kind = "null" ->
              /\ navigationResponse' = NoResponse
              /\ log' = Append(went, Ev("null", page, <<>>))
              /\ pc' = "afterNavigation"
              /\ UNCHANGED <<objs, page, err, finalUrl, processedAsPdf, upstreamStatus>>
         [] o.kind = "response" ->
              /\ navigationResponse' = o.resp
              /\ finalUrl' = o.resp.url
              /\ upstreamStatus' = o.resp.status
              /\ processedAsPdf' = isPdfContentType(o.resp.ctype)
              /\ objs' = [objs EXCEPT ![page].url = o.resp.url]
              /\ log' = Append(went, RespEv(page, o.resp))
              /\ pc' = IF navigationSettled(isPdfContentType(o.resp.ctype), o.resp.status)
                         THEN "afterNavigation" ELSE again
              /\ UNCHANGED <<page, err>>
  /\ UNCHANGED <<handler, req, targetUrl, browser, context, retried,
                 result, sent, totalCrawls, successfulCrawls>>
  /\ UNCHANGED <<redirectChain, extraction>>
  /\ UNCHANGED <<verificationVars, markdownVars, managerVars, serviceVars, readVars>>

\* lines 503-516: no response and not a PDF: answer 502
CrAfterNavigation ==
  /\ handler = "crawl" /\ pc = "afterNavigation"
  /\ IF noResponseReceived(processedAsPdf, navigationResponse)
       THEN /\ sent' = json(sent, ErrorResponse(502, MsgNoResponse, ""))
            /\ log' = Append(log, Ev("send", 0, <<>>))
            /\ pc' = "finally"
       ELSE /\ pc' = "reopenPage"
            /\ UNCHANGED <<sent, log>>
  /\ UNCHANGED <<handler, req, targetUrl, browser, context, page, objs, retried, err,
                 navigationAttempts, navigationResponse, finalUrl, processedAsPdf,
                 upstreamStatus, result, totalCrawls, successfulCrawls>>
  /\ UNCHANGED <<redirectChain, extraction>>
  /\ UNCHANGED <<verificationVars, markdownVars, managerVars, serviceVars, readVars>>

\* lines 518-524: the page is gone: open a new one and navigate it, errors ignored
CrReopenPage ==
  /\ handler = "crawl" /\ pc = "reopenPage"
  /\ IF ~processedAsPdf /\ (page = 0 \/ isClosed(page))
       THEN \/ /\ page' = NextId
               /\ \E u \in ResponseUrls \cup {AboutBlank} :
                    objs' = Append(objs, [Object("page", context, 1) EXCEPT !.url = u])
               /\ log' = log \o <<Ev("newPage", NextId, <<>>), Ev("goto", NextId, finalUrl)>>
               /\ pc' = "html"
               /\ UNCHANGED err
            \/ /\ \E m \in ContextErrors : Throw(Error(m))
               /\ UNCHANGED <<page, objs, log>>
       ELSE /\ pc' = IF processedAsPdf THEN "pdf" ELSE "html"
            /\ UNCHANGED <<page, objs, log, err>>
  /\ UNCHANGED <<handler, req, targetUrl, browser, context, retried,
                 navigationAttempts, navigationResponse, finalUrl, processedAsPdf,
                 upstreamStatus, result, sent, totalCrawls, successfulCrawls>>
  /\ UNCHANGED <<redirectChain, extraction>>
  /\ UNCHANGED <<verificationVars, markdownVars, managerVars, serviceVars, readVars>>

\* lines 526-559: the PDF path
CrPdf ==
  /\ handler = "crawl" /\ pc = "pdf"
  /\ LET closing == page # 0 /\ ~isClosed(page)
         closed == IF closing THEN Append(log, Ev("close", page, <<>>)) ELSE log
     IN
       /\ objs' = IF closing THEN close(objs, page) ELSE objs
       /\ page' = IF closing THEN 0 ELSE page
       /\ log' = Append(closed, Ev("pdf", context, pdfUrlString(finalUrl, targetUrl)))
  /\ \/ /\ result' = [kind |-> "pdf", status |-> 200]
        /\ pc' = "respond"
        /\ UNCHANGED err
     \/ /\ \E m \in PdfFetchErrors \cup {MsgEmptyPdf} : Throw(Error(m))
        /\ UNCHANGED result
  /\ UNCHANGED <<handler, req, targetUrl, browser, context, retried,
                 navigationAttempts, navigationResponse, finalUrl, processedAsPdf,
                 upstreamStatus, sent, totalCrawls, successfulCrawls>>
  /\ UNCHANGED <<redirectChain, extraction>>
  /\ UNCHANGED <<verificationVars, markdownVars, managerVars, serviceVars, readVars>>

\* lines 560-566: the HTML path
CrHtml ==
  /\ handler = "crawl" /\ pc = "html"
  /\ log' = Append(log, Ev("html", page, finalUrl))
  /\ \E evaluated \in EvaluateOutcomes(page), content \in ContentOutcomes(page) :
       LET extracted == extractHtmlContent(evaluated, content) IN
         /\ extraction' = extracted
         /\ IF extracted.ok
              THEN /\ result' = [kind |-> "html", status |-> navigationResponse.status]
                   /\ pc' = "respond"
                   /\ UNCHANGED err
              ELSE /\ Throw(extracted.error)
                   /\ UNCHANGED result
  /\ UNCHANGED <<handler, req, targetUrl, browser, context, page, objs, retried,
                 navigationAttempts, navigationResponse, finalUrl, processedAsPdf,
                 upstreamStatus, sent, totalCrawls, successfulCrawls>>
  /\ UNCHANGED <<redirectChain>>
  /\ UNCHANGED <<verificationVars, markdownVars, managerVars, serviceVars, readVars>>

\* lines 568-608: assemble the payload and answer 200
CrRespond ==
  /\ handler = "crawl" /\ pc = "respond"
  /\ sent' = json(sent, [SuccessResponse(result.kind,
                                         reportedStatus(processedAsPdf, upstreamStatus))
                           EXCEPT !.status = responseStatus(upstreamStatus)])
  /\ log' = Append(log, Ev("send", 0, <<>>))
  /\ pc' = "finally"
  /\ UNCHANGED <<handler, req, targetUrl, browser, context, page, objs, retried, err,
                 navigationAttempts, navigationResponse, finalUrl, processedAsPdf,
                 upstreamStatus, result, totalCrawls, successfulCrawls>>
  /\ UNCHANGED <<redirectChain, extraction>>
  /\ UNCHANGED <<verificationVars, markdownVars, managerVars, serviceVars, readVars>>

\* lines 609-615: catch
CrCatch ==
  /\ handler = "crawl" /\ pc = "catch"
  /\ sent' = crawlFailed(sent, err)
  /\ log' = log \o <<ErrEv("catch", 0, err), Ev("send", 0, <<>>)>>
  /\ err' = NoError
  /\ pc' = "finally"
  /\ UNCHANGED <<handler, req, targetUrl, browser, context, page, objs, retried,
                 navigationAttempts, navigationResponse, finalUrl, processedAsPdf,
                 upstreamStatus, result, totalCrawls, successfulCrawls>>
  /\ UNCHANGED <<redirectChain, extraction>>
  /\ UNCHANGED <<verificationVars, markdownVars, managerVars, serviceVars, readVars>>

\* lines 616-626: finally
CrFinally ==
  /\ handler = "crawl" /\ pc = "finally"
  /\ objs' = closeAll(objs, cleanupTargets(page, context, browser))
  /\ log' = log \o closeEvents(cleanupTargets(page, context, browser))
  /\ pc' = "done"
  /\ UNCHANGED <<handler, req, targetUrl, browser, context, page, retried, err,
                 navigationAttempts, navigationResponse, finalUrl, processedAsPdf,
                 upstreamStatus, result, sent, totalCrawls, successfulCrawls>>
  /\ UNCHANGED <<redirectChain, extraction>>
  /\ UNCHANGED <<verificationVars, markdownVars, managerVars, serviceVars, readVars>>

Crawl == CrValidate \/ CrLaunch \/ CrNewContext \/ CrNewPage \/ CrNavigate
           \/ CrAfterNavigation \/ CrReopenPage \/ CrPdf \/ CrHtml \/ CrRespond
           \/ CrCatch \/ CrFinally

Next == Service \/ Crawl \/ PageCloses

Spec == Init /\ [][Next]_vars

\* every awaited browser operation returns or fails by its deadline
FairSpec == Spec /\ WF_vars(Service \/ Crawl)


----------------------------------------------------------------------------
(* The handlers with a redirect limit and a human-verification poller:     *)
(*   "server"        src/server.js:172-360 and 378-402 (puppeteer)         *)
(*   "crawlService"  src/src/services/crawlService.js:58-78 and 128-362    *)

MAX_REDIRECTS == 5
HUMAN_VERIFICATION_TIMEOUT_MS == 45000
HUMAN_VERIFICATION_CHECK_INTERVAL_MS == 2000

\* the redirects the target site answers with, at most
MaxRedirectsServed == 6
\* the time one read of the page text takes, at most (ms)
MaxReadMs == 1000

\* src/src/config.js:19-26, the constants object crawlService.js imports
constants ==
  [WATCHDOG_INTERVAL_MS |-> 10000, WATCHDOG_THRESHOLD_MS |-> 750,
   MAX_REDIRECTS |-> 5, DEFAULT_NAV_TIMEOUT_MS |-> 45000,
   CHALLENGE_MAX_REFRESHES |-> 2, NAVIGATION_RETRY_TIMEOUT_MS |-> 60000]

\* a number, or undefined
Num(n) == [def |-> TRUE, n |-> n]
NotANumber == [def |-> FALSE, n |-> 0]

\* obj.key: undefined when the object has no such property
Property(obj, key) == IF key \in DOMAIN obj THEN Num(obj[key]) ELSE NotANumber

\* a < b where b may be undefined: the comparison with NaN is false
LessThan(a, b) == b.def /\ a < b.n

\* the timeout and the poll interval waitForHumanVerification is compiled with
verificationTimeout(h) ==
  IF h = "server" THEN Num(HUMAN_VERIFICATION_TIMEOUT_MS)
  ELSE Property(constants, "HUMAN_VERIFICATION_TIMEOUT_MS")

checkInterval(h) ==
  IF h = "server" THEN Num(HUMAN_VERIFICATION_CHECK_INTERVAL_MS)
  ELSE Property(constants, "HUMAN_VERIFICATION_CHECK_INTERVAL_MS")

\* mutant: the poller gives up after one poll interval
withinOneInterval(waited, timeout) ==
  LessThan(waited, Num(HUMAN_VERIFICATION_CHECK_INTERVAL_MS))

\* while (Date.now() - start < HUMAN_VERIFICATION_TIMEOUT_MS)
withinDeadline(waited, timeout) == LessThan(waited, timeout)

\* document.body.innerText as the poller can read it
ChallengeTexts == {"Verifying you are human. This may take a few seconds.", "Press and Hold"}
CleanTexts == {"Welcome", ""}
ReadError == "<evaluate failed>"

\* the texts a read can return, by the challenge the page was served with:
\* a challenge that was shown may have cleared by the time of the read
PageTexts(c) == IF c = "shown" THEN ChallengeTexts \cup CleanTexts ELSE CleanTexts

HUMAN_VERIFICATION_PATTERNS ==
  {"verify(?:ing)? you are human", "needs to review the security of your connection",
   "checking your browser before accessing", "press and hold"}

\* the patterns that match a text
TextMatches(text) ==
  CASE text = "Verifying you are human. This may take a few seconds." ->
         {"verify(?:ing)? you are human"}
    [] text = "Press and Hold" -> {"press and hold"}
    [] OTHER -> {}

\* HUMAN_VERIFICATION_PATTERNS.some((pattern) => pattern.test(challengeText))
hasChallenge(text) == \E pattern \in HUMAN_VERIFICATION_PATTERNS : pattern \in TextMatches(text)

\* mutant: a failed read is taken for an empty text
readClearedOnError(text) == text = ReadError \/ ~hasChallenge(text)

\* the read succeeded and  if (!hasChallenge) return { cleared: true, .. }
readCleared(text) == text # ReadError /\ ~hasChallenge(text)

ReadKind(text) ==
  IF text = ReadError THEN "error" ELSE IF hasChallenge(text) THEN "challenge" ELSE "clear"

\* mutant: the limit is reached with the fifth redirect
exceedsRedirectLimitInclusive(n) == n >= MAX_REDIRECTS

\* request.isNavigationRequest() && request.redirectChain().length > MAX_REDIRECTS
exceedsRedirectLimit(n) == n > MAX_REDIRECTS

\* expressStatus = upstreamStatus >= 400 ? upstreamStatus : 200
expressStatus(upstream) == IF upstream >= 400 THEN upstream ELSE 200

\* res.status(310).json({ error: message, redirects: redirectCountObserved })
RedirectResponse(error, redirects) ==
  [status |-> 310, error |-> error, details |-> "", stack |-> FALSE, payload |-> "none",
   statusCode |-> 0, redirects |-> redirects]

MsgRedirectLimit == "Exceeded redirect limit of 5"
MsgVerification == "Verification challenge did not clear within 45000ms"
MsgVerificationUndefined == "Verification challenge did not clear within undefinedms"
MsgBlocked == "net::ERR_BLOCKED_BY_CLIENT"
\* `Upstream responded with status ${upstreamStatus}`
upstreamMessage(status) == <<"Upstream responded with status", status>>

\* the message of the 524 answer
verificationMessage(h) ==
  IF verificationTimeout(h).def THEN MsgVerification ELSE MsgVerificationUndefined

\* the navigation responses the server handler is given (it never reads their URL)
ServerResponses == {r \in Responses : r.url = UrlA}

\* recordCrawlResult({ statusCode, error })
recordCrawlResult(error) ==
  /\ totalCrawls' = totalCrawls + 1
  /\ successfulCrawls' = IF error THEN successfulCrawls ELSE successfulCrawls + 1

identVars == <<handler, req>>
objVars == <<browser, context, page, objs>>
navVars == <<navigationResponse, finalUrl, processedAsPdf, upstreamStatus, challenge>>
counters == <<totalCrawls, successfulCrawls>>
redirectVars == <<redirectLimitExceeded, redirectCountObserved, request>>
pollVars == <<elapsed, poll, verificationResult>>
\* the locals of the other handlers, the history they keep, and the
\* variables of the other modules
otherVars ==
  <<retried, navigationAttempts, redirectChain, extraction, log, markdownVars,
    managerVars, serviceVars>>
crawlOnlyVars == <<otherVars, readVars>>

\* what page.evaluate and page.content() can read from a page served with
\* challenge c: the interstitial while it is shown, the page once it cleared
\* page.content() after the poller returned cleared: the poller's last read
\* saw the page without a challenge, and a challenge that cleared stays cleared
contentState(polled) == IF polled.lastRead = "clear" THEN "clear" ELSE "challenge"

ReadStates(c) == {ReadKind(text) : text \in PageTexts(c)}

VerificationRequests == [method : {"GET"}, url : UrlParams]

VerificationInit ==
  /\ handler \in {"server", "crawlService"}
  /\ req \in VerificationRequests
  /\ pc = "start"
  /\ targetUrl = <<>>
  /\ browser = 0 /\ context = 0 /\ page = 0
  /\ objs = <<>>
  /\ retried = FALSE
  /\ err = NoError
  /\ navigationAttempts = 0
  /\ navigationResponse = NoResponse
  /\ finalUrl = <<>>
  /\ processedAsPdf = FALSE
  /\ upstreamStatus = 0
  /\ result = NoResult
  /\ sent = <<>>
  /\ totalCrawls = 0 /\ successfulCrawls = 0
  /\ log = <<>>
  /\ redirectChain = <<>>
  /\ extraction = NoExtraction
  /\ redirectLimitExceeded = FALSE /\ redirectCountObserved = 0
  /\ request = 0
  /\ challenge = "none"
  /\ elapsed = 0
  /\ poll = NotPolled
  /\ verificationResult = NoVerification
  /\ NoMarkdown
  /\ NoManager
  /\ NoService
  /\ NoReads

\* the validation both handlers start with
Validate ==
  /\ pc = "start"
  /\ LET parsed == URL(req.url.s)
         reject(error) ==
           /\ sent' = json(sent, ErrorResponse(400, error, ""))
           /\ pc' = "done"
           /\ UNCHANGED targetUrl
     IN
       IF missingUrl(req.url) THEN reject("Missing url query parameter")
       ELSE IF ~parsed.ok THEN reject("Invalid URL")
       ELSE IF ~supportedProtocol(parsed.protocol)
         THEN reject("Only http and https protocols are supported")
       ELSE /\ targetUrl' = parsed.href
            /\ pc' = "launch"
            /\ UNCHANGED sent
  /\ UNCHANGED <<identVars, objVars, err, navVars, result, counters, redirectVars,
                 pollVars, crawlOnlyVars>>

\* browser = await <library>.launch(..)
Launch(next) ==
  /\ pc = "launch"
  /\ \/ /\ objs' = Append(objs, Object("browser", 0, 1))
        /\ browser' = NextId
        /\ pc' = next
        /\ UNCHANGED err
     \/ /\ \E m \in LaunchErrors : Throw(Error(m))
        /\ UNCHANGED <<objs, browser>>
  /\ UNCHANGED <<identVars, targetUrl, context, page, navVars, result, sent, counters,
                 redirectVars, pollVars, crawlOnlyVars>>

\* catch (err): record the failure and answer 500
Catch ==
  /\ pc = "catch"
  /\ recordCrawlResult(TRUE)
  /\ sent' = crawlFailed(sent, err)
  /\ err' = NoError
  /\ pc' = "finally"
  /\ UNCHANGED <<identVars, targetUrl, objVars, navVars, result, redirectVars,
                 pollVars, crawlOnlyVars>>

----------------------------------------------------------------------------
(* server.js: app.get('/crawl', ..) *)

\* lines 172-188
SrvValidate == handler = "server" /\ Validate

\* lines 190-194: browser = await puppeteer.launch(..)
SrvLaunch == handler = "server" /\ Launch("newPage")

\* lines 196-220: the page, its settings, the request interception
SrvNewPage ==
  /\ handler = "server" /\ pc = "newPage"
  /\ \/ /\ objs' = Append(objs, Object("page", browser, 1))
        /\ page' = NextId
        /\ redirectLimitExceeded' = FALSE
        /\ redirectCountObserved' = 0
        /\ pc' = "goto"
        /\ UNCHANGED err
     \/ /\ \E m \in ContextErrors : Throw(Error(m))
        /\ UNCHANGED <<objs, page, redirectLimitExceeded, redirectCountObserved>>
  /\ UNCHANGED <<identVars, targetUrl, browser, context, navVars, result, sent,
                 counters, request, pollVars, crawlOnlyVars>>

\* line 224: page.goto(targetUrl.href, ..) issues the navigation request
SrvGoto ==
  /\ handler = "server" /\ pc = "goto"
  /\ request' = 0
  /\ pc' = "request"
  /\ UNCHANGED <<identVars, targetUrl, objVars, err, navVars, result, sent, counters,
                 redirectLimitExceeded, redirectCountObserved, pollVars, crawlOnlyVars>>

\* lines 205-218: handleRequest, called with the navigation request and with
\* the request of each of its redirects
SrvHandleRequest ==
  /\ handler = "server" /\ pc = "request"
  /\ IF exceedsRedirectLimit(request)
       THEN /\ redirectLimitExceeded' = TRUE
            /\ redirectCountObserved' = request
            \* request.abort(): the navigation fails; if abort() fails the
            \* request stays pending and the navigation times out
            /\ \E m \in {MsgBlocked, MsgNavTimeout} : err' = Error(m)
            /\ pc' = "navigationFailed"
       ELSE /\ pc' = "upstream"
            /\ UNCHANGED <<redirectLimitExceeded, redirectCountObserved, err>>
  /\ UNCHANGED <<identVars, targetUrl, objVars, navVars, result, sent, counters,
                 request, pollVars, crawlOnlyVars>>

\* lines 222-251: the target answers the continued request with a redirect,
\* a response, nothing, or the navigation fails; no response is answered 502
SrvUpstream ==
  /\ handler = "server" /\ pc = "upstream"
  /\ \/ /\ request < MaxRedirectsServed
        /\ request' = request + 1
        /\ pc' = "request"
        /\ UNCHANGED <<err, navigationResponse, challenge, sent, counters>>
     \/ /\ \E r \in ServerResponses : navigationResponse' = r
        /\ challenge' \in {"none", "shown"}
        /\ pc' = "metadata"
        /\ UNCHANGED <<err, request, sent, counters>>
     \/ /\ recordCrawlResult(TRUE)
        /\ sent' = json(sent, ErrorResponse(502, MsgNoResponse, ""))
        /\ pc' = "finally"
        /\ UNCHANGED <<err, request, navigationResponse, challenge>>
     \/ /\ \E m \in {MsgNet, MsgNavTimeout} : err' = Error(m)
        /\ pc' = "navigationFailed"
        /\ UNCHANGED <<request, navigationResponse, challenge, sent, counters>>
  /\ UNCHANGED <<identVars, targetUrl, objVars, finalUrl, processedAsPdf, upstreamStatus,
                 result, redirectLimitExceeded, redirectCountObserved, pollVars,
                 crawlOnlyVars>>

\* lines 228-242: catch (navigationErr)
SrvNavigationFailed ==
  /\ handler = "server" /\ pc = "navigationFailed"
  /\ IF redirectLimitExceeded
       THEN /\ recordCrawlResult(TRUE)
            /\ sent' = json(sent, RedirectResponse(MsgRedirectLimit, redirectCountObserved))
            /\ err' = NoError
            /\ pc' = "finally"
       ELSE /\ pc' = "catch"
            /\ UNCHANGED <<sent, counters, err>>
  /\ UNCHANGED <<identVars, targetUrl, objVars, navVars, result, redirectVars,
                 pollVars, crawlOnlyVars>>

\* lines 260-280: the metadata evaluation, then waitForHumanVerification starts
SrvMetadata ==
  /\ handler = "server" /\ pc = "metadata"
  /\ \/ /\ \E state \in ReadStates(challenge) : metadata' = state
        /\ elapsed' = 0 /\ poll' = NotPolled
        /\ pc' = "pollCheck"
        /\ UNCHANGED err
     \/ /\ \E m \in HtmlErrors : Throw(Error(m))
        /\ UNCHANGED <<elapsed, poll, metadata>>
  /\ UNCHANGED <<identVars, targetUrl, objVars, navVars, result, sent, counters,
                 redirectVars, verificationResult, otherVars, fullHtml>>

\* lines 282-318: the verdict of the poller, then the content and the Markdown
SrvVerified ==
  /\ handler = "server" /\ pc = "verified"
  /\ IF ~verificationResult.cleared
       THEN /\ recordCrawlResult(TRUE)
            /\ sent' = json(sent, ErrorResponse(524, verificationMessage(handler), ""))
            /\ pc' = "finally"
            /\ UNCHANGED <<err, result, fullHtml>>
       ELSE \/ /\ result' = [kind |-> "html", status |-> navigationResponse.status]
               /\ fullHtml' = contentState(poll)
               /\ pc' = "respond"
               /\ UNCHANGED <<err, sent, counters>>
            \/ /\ \E m \in HtmlErrors : Throw(Error(m))
               /\ UNCHANGED <<result, sent, counters, fullHtml>>
  /\ UNCHANGED <<identVars, targetUrl, objVars, navVars, redirectVars, pollVars,
                 otherVars, metadata>>

\* lines 319-347: the answer carries the upstream status
SrvRespond ==
  /\ handler = "server" /\ pc = "respond"
  /\ upstreamStatus' = navigationResponse.status
  /\ recordCrawlResult(navigationResponse.status >= 400)
  /\ sent' = json(sent, [SuccessResponse(result.kind, navigationResponse.status)
                           EXCEPT !.status = expressStatus(navigationResponse.status)])
  /\ pc' = "finally"
  /\ UNCHANGED <<identVars, targetUrl, objVars, err, navigationResponse, finalUrl,
                 processedAsPdf, challenge, result, redirectVars, pollVars,
                 crawlOnlyVars>>

\* lines 348-354
SrvCatch == handler = "server" /\ Catch

\* lines 355-359: if (browser) await browser.close()
SrvFinally ==
  /\ handler = "server" /\ pc = "finally"
  /\ objs' = closeAll(objs, <<browser>>)
  /\ pc' = "done"
  /\ UNCHANGED <<identVars, targetUrl, browser, context, page, err, navVars, result,
                 sent, counters, redirectVars, pollVars, crawlOnlyVars>>

----------------------------------------------------------------------------
(* waitForHumanVerification (server.js:378-402, crawlService.js:58-78) *)

\* while (Date.now() - start < TIMEOUT) .. return { cleared: false, waitedMs }
PollCheck ==
  /\ pc = "pollCheck"
  /\ IF withinDeadline(elapsed, verificationTimeout(handler))
       THEN /\ pc' = "pollRead"
            /\ UNCHANGED verificationResult
       ELSE /\ verificationResult' =
                 [returned |-> TRUE, cleared |-> FALSE, waitedMs |-> elapsed]
            /\ pc' = "verified"
  /\ UNCHANGED <<identVars, targetUrl, objVars, err, navVars, result, sent, counters,
                 redirectVars, elapsed, poll, crawlOnlyVars>>

\* the read of document.body.innerText: a text, or an error that is ignored
PollRead ==
  /\ pc = "pollRead"
  /\ \E took \in {0, MaxReadMs}, text \in PageTexts(challenge) \cup {ReadError} :
       /\ elapsed' = elapsed + took
       /\ poll' = [poll EXCEPT !.reads = @ + 1, !.lastRead = ReadKind(text),
                               !.readAt = elapsed + took,
                               !.failed = @ \/ text = ReadError]
       /\ IF readCleared(text)
            THEN /\ verificationResult' =
                      [returned |-> TRUE, cleared |-> TRUE, waitedMs |-> elapsed + took]
                 /\ pc' = "verified"
            ELSE /\ pc' = "pollSleep"
                 /\ UNCHANGED verificationResult
  /\ UNCHANGED <<identVars, targetUrl, objVars, err, navVars, result, sent, counters,
                 redirectVars, crawlOnlyVars>>

\* await page.waitForTimeout(CHECK_INTERVAL)
PollSleep ==
  /\ pc = "pollSleep"
  /\ elapsed' = elapsed + (IF checkInterval(handler).def THEN checkInterval(handler).n ELSE 0)
  /\ poll' = [poll EXCEPT !.sleeps = @ + 1]
  /\ pc' = "pollCheck"
  /\ UNCHANGED <<identVars, targetUrl, objVars, err, navVars, result, sent, counters,
                 redirectVars, verificationResult, crawlOnlyVars>>

----------------------------------------------------------------------------
(* crawlService.js handleCrawl *)

\* lines 128-145
CsValidate == handler = "crawlService" /\ Validate

\* line 158: browser = await chromium.launch({ headless: true })
CsLaunch == handler = "crawlService" /\ Launch("newContext")

\* lines 159-166
CsNewContext ==
  /\ handler = "crawlService" /\ pc = "newContext"
  /\ \/ /\ objs' = Append(objs, Object("context", browser, 1))
        /\ context' = NextId
        /\ pc' = "apiRequest"
        /\ UNCHANGED err
     \/ /\ \E m \in ContextErrors : Throw(Error(m))
        /\ UNCHANGED <<objs, context>>
  /\ UNCHANGED <<identVars, targetUrl, browser, page, navVars, result, sent, counters,
                 redirectVars, pollVars, crawlOnlyVars>>

\* lines 173-190: the request that classifies the target; an upstream error
\* status is answered at once
CsApiRequest ==
  /\ handler = "crawlService" /\ pc = "apiRequest"
  /\ \/ \E r \in Responses :
          /\ upstreamStatus' = r.status
          /\ finalUrl' = r.url
          /\ processedAsPdf' = isPdfContentType(r.ctype)
          /\ IF r.status >= 400
               THEN /\ recordCrawlResult(TRUE)
                    /\ sent' = json(sent, ErrorResponse(r.status, upstreamMessage(r.status), ""))
                    /\ pc' = "finally"
               ELSE /\ pc' = IF isPdfContentType(r.ctype) THEN "pdf" ELSE "newPage"
                    /\ UNCHANGED <<sent, counters>>
          /\ UNCHANGED err
     \/ /\ \E m \in {MsgNet, MsgTimeout} : Throw(Error(m))
        /\ UNCHANGED <<upstreamStatus, finalUrl, processedAsPdf, sent, counters>>
  /\ UNCHANGED <<identVars, targetUrl, objVars, navigationResponse, challenge, result,
                 redirectVars, pollVars, crawlOnlyVars>>

\* lines 202-229: the PDF is saved; a failure to do so is recorded, not thrown
CsPdf ==
  /\ handler = "crawlService" /\ pc = "pdf"
  /\ \E saved \in BOOLEAN :
       result' = [kind |-> "pdf", status |-> IF saved THEN 200 ELSE 500]
  /\ pc' = "respond"
  /\ UNCHANGED <<identVars, targetUrl, objVars, err, navVars, sent, counters,
                 redirectVars, pollVars, crawlOnlyVars>>

\* line 231: page = await context.newPage()
CsNewPage ==
  /\ handler = "crawlService" /\ pc = "newPage"
  /\ \/ /\ objs' = Append(objs, Object("page", context, 1))
        /\ page' = NextId
        /\ pc' = "goto"
        /\ UNCHANGED err
     \/ /\ \E m \in ContextErrors : Throw(Error(m))
        /\ UNCHANGED <<objs, page>>
  /\ UNCHANGED <<identVars, targetUrl, browser, context, navVars, result, sent,
                 counters, redirectVars, pollVars, crawlOnlyVars>>

\* lines 232-242: page.goto(finalUrl, ..); no response is answered 502
CsGoto ==
  /\ handler = "crawlService" /\ pc = "goto"
  /\ \/ /\ \E r \in Responses : navigationResponse' = r
        /\ challenge' \in {"none", "shown"}
        /\ pc' = "metadata"
        /\ UNCHANGED <<err, sent, counters>>
     \/ /\ recordCrawlResult(TRUE)
        /\ sent' = json(sent, ErrorResponse(502, MsgNoResponse, ""))
        /\ pc' = "finally"
        /\ UNCHANGED <<err, navigationResponse, challenge>>
     \/ /\ \E m \in {MsgNet, MsgNavTimeout} : Throw(Error(m))
        /\ UNCHANGED <<navigationResponse, challenge, sent, counters>>
  /\ UNCHANGED <<identVars, targetUrl, objVars, finalUrl, processedAsPdf, upstreamStatus,
                 result, redirectVars, pollVars, crawlOnlyVars>>

\* lines 244-263: the metadata evaluation, then waitForHumanVerification starts
CsMetadata ==
  /\ handler = "crawlService" /\ pc = "metadata"
  /\ \/ /\ \E state \in ReadStates(challenge) : metadata' = state
        /\ elapsed' = 0 /\ poll' = NotPolled
        /\ pc' = "pollCheck"
        /\ UNCHANGED err
     \/ /\ \E m \in HtmlErrors : Throw(Error(m))
        /\ UNCHANGED <<elapsed, poll, metadata>>
  /\ UNCHANGED <<identVars, targetUrl, objVars, navVars, result, sent, counters,
                 redirectVars, verificationResult, otherVars, fullHtml>>

\* lines 265-296: the verdict of the poller, then the content and the Markdown
CsVerified ==
  /\ handler = "crawlService" /\ pc = "verified"
  /\ IF ~verificationResult.cleared
       THEN /\ recordCrawlResult(TRUE)
            /\ sent' = json(sent, ErrorResponse(524, verificationMessage(handler), ""))
            /\ pc' = "finally"
            /\ UNCHANGED <<err, result, fullHtml>>
       ELSE \/ /\ result' = [kind |-> "html", status |-> upstreamStatus]
               /\ fullHtml' = contentState(poll)
               /\ pc' = "respond"
               /\ UNCHANGED <<err, sent, counters>>
            \/ /\ \E m \in HtmlErrors : Throw(Error(m))
               /\ UNCHANGED <<result, sent, counters, fullHtml>>
  /\ UNCHANGED <<identVars, targetUrl, objVars, navVars, redirectVars, pollVars,
                 otherVars, metadata>>

\* lines 298-339
CsRespond ==
  /\ handler = "crawlService" /\ pc = "respond"
  /\ recordCrawlResult(upstreamStatus >= 400)
  /\ sent' = json(sent, [SuccessResponse(result.kind, upstreamStatus)
                           EXCEPT !.status = expressStatus(upstreamStatus)])
  /\ pc' = "finally"
  /\ UNCHANGED <<identVars, targetUrl, objVars, err, navVars, result, redirectVars,
                 pollVars, crawlOnlyVars>>

\* lines 340-349
CsCatch == handler = "crawlService" /\ Catch

\* lines 350-361
CsFinally ==
  /\ handler = "crawlService" /\ pc = "finally"
  /\ objs' = closeAll(objs, cleanupTargets(page, context, browser))
  /\ pc' = "done"
  /\ UNCHANGED <<identVars, targetUrl, browser, context, page, err, navVars, result,
                 sent, counters, redirectVars, pollVars, crawlOnlyVars>>

Server == SrvValidate \/ SrvLaunch \/ SrvNewPage \/ SrvGoto \/ SrvHandleRequest
            \/ SrvUpstream \/ SrvNavigationFailed \/ SrvMetadata \/ SrvVerified
            \/ SrvRespond \/ SrvCatch \/ SrvFinally

CrawlService == CsValidate \/ CsLaunch \/ CsNewContext \/ CsApiRequest \/ CsPdf
                  \/ CsNewPage \/ CsGoto \/ CsMetadata \/ CsVerified \/ CsRespond
                  \/ CsCatch \/ CsFinally

waitForHumanVerification == PollCheck \/ PollRead \/ PollSleep

VerificationNext == Server \/ CrawlService \/ waitForHumanVerification

VerificationSpec == VerificationInit /\ [][VerificationNext]_vars

----------------------------------------------------------------------------
(* utils/markdown.js: cleanMarkdown, normalizeLinks, sanitizeUrl.          *)
(* A Markdown string is a sequence of characters; a word no pattern looks  *)
(* into ("Post", "comment", "utm_", "//h") is one character of it.         *)

Space == {" ", "\t", "\n", "\r"}                                \* \s
Blank == {" ", "\t"}                                            \* [ \t]
Digit == {"0", "1", "2", "3", "4", "5", "6", "7", "8", "9"}     \* \d
Bullet == {"-", "*", "+"}                                       \* [-*+]

\* s[i], or "" past either end of s
At(s, i) == IF i \in 1..Len(s) THEN s[i] ELSE ""

\* the index after the run of characters of class that starts at i
RECURSIVE RunEnd(_, _, _)
RunEnd(s, i, class) ==
  IF i <= Len(s) /\ s[i] \in class THEN RunEnd(s, i + 1, class) ELSE i

\* the index of the first c at or after i, Len(s) + 1 if there is none
RECURSIVE IndexOf(_, _, _)
IndexOf(s, i, c) == IF i > Len(s) \/ s[i] = c THEN i ELSE IndexOf(s, i + 1, c)

\* ^ and $ under the m flag, at the position before s[i]
LineStart(s, i) == i = 1 \/ s[i - 1] = "\n"
LineEnd(s, i) == i = Len(s) + 1 \/ s[i] = "\n"

\* \s*$ from i: the longest run of white space that ends at a line end;
\* the index after it, 0 if no such run
SpaceToEol(s, i) ==
  LET ends == {k \in i..RunEnd(s, i, Space) : LineEnd(s, k)} IN
  IF ends = {} THEN 0 ELSE CHOOSE k \in ends : \A j \in ends : j <= k

\* String.prototype.trimStart, trimEnd
RECURSIVE trimStart(_)
trimStart(s) == IF s # <<>> /\ Head(s) \in Space THEN trimStart(Tail(s)) ELSE s

RECURSIVE trimEnd(_)
trimEnd(s) ==
  IF s # <<>> /\ s[Len(s)] \in Space THEN trimEnd(SubSeq(s, 1, Len(s) - 1)) ELSE s

\* s.split(sep)
RECURSIVE split(_, _)
split(s, sep) ==
  LET i == IndexOf(s, 1, sep) IN
  IF i > Len(s) THEN <<s>>
  ELSE <<SubSeq(s, 1, i - 1)>> \o split(SubSeq(s, i + 1, Len(s)), sep)

\* parts.join(sep)
RECURSIVE join(_, _)
join(parts, sep) ==
  IF parts = <<>> THEN <<>>
  ELSE IF Len(parts) = 1 THEN parts[1]
  ELSE parts[1] \o <<sep>> \o join(Tail(parts), sep)

TRACKER_PREFIXES == {"utm_", "ref", "mc_", "smid"}
TRACKER_EXACT == {<<"gclid">>, <<"fbclid">>, <<"igshid">>}

\* key.toLowerCase()
toLowerCase(key) == [k \in DOMAIN key |-> ToLowerCase(key[k])]

\* mutant: only the exact names are tracking parameters
isTrackerExactOnly(key) == toLowerCase(key) \in TRACKER_EXACT

\* TRACKER_EXACT.includes(lower) || TRACKER_PREFIXES.some((prefix) => lower.startsWith(prefix))
isTracker(key) ==
  \/ toLowerCase(key) \in TRACKER_EXACT
  \/ key # <<>> /\ toLowerCase(key)[1] \in TRACKER_PREFIXES

\* one "name=value" of a query string, as URLSearchParams reads it
searchParam(text) ==
  LET eq == IndexOf(text, 1, "=") IN
  [key |-> SubSeq(text, 1, eq - 1), value |-> SubSeq(text, eq + 1, Len(text))]

\* url.searchParams of a query string (without its "?")
searchParams(query) ==
  LET texts == SelectSeq(split(query, "&"), LAMBDA t : t # <<>>) IN
  [k \in DOMAIN texts |-> searchParam(texts[k])]

\* the query string URLSearchParams serializes to
serialize(params) ==
  join([k \in DOMAIN params |-> params[k].key \o <<"=">> \o params[k].value], "&")

\* the paths that start with a slash
AbsolutePath(path) == path # <<>> /\ path[1] \in {"/", "/a", "/b", "/doc"}

\* function sanitizeUrl(rawUrl)
sanitizeUrl(rawUrl) ==
  LET hasProtocol == rawUrl # <<>> /\ (rawUrl[1] \in Schemes \/ rawUrl[1] = "mailto:")
      protocol == IF hasProtocol THEN ToLowerCase(rawUrl[1]) ELSE "https:"
      h == IndexOf(rawUrl, 1, "#")
      q == IndexOf(SubSeq(rawUrl, 1, h - 1), 1, "?")
      location == SubSeq(rawUrl, 1, IF q < h THEN q - 1 ELSE h - 1)
      query == SubSeq(rawUrl, q + 1, h - 1)
      params == searchParams(query)
      keysToDelete == {params[k].key : k \in {j \in DOMAIN params : isTracker(params[j].key)}}
      kept == SelectSeq(params, LAMBDA p : p.key \notin keysToDelete)
      search == IF keysToDelete = {} THEN SubSeq(rawUrl, q, h - 1)
                ELSE IF kept = <<>> THEN <<>>
                ELSE <<"?">> \o serialize(kept)
      href == IF hasProtocol
                THEN <<protocol>> \o Tail(location)
                       \o (IF Len(location) = 2 THEN <<"/">> ELSE <<>>)
                ELSE IF AbsolutePath(location) THEN location
                ELSE <<"/">> \o location
  IN
  IF rawUrl = <<>> THEN rawUrl
  ELSE IF hasProtocol /\ protocol \notin {"http:", "https:"} THEN rawUrl
  \* new URL() throws for an http URL without a host
  ELSE IF hasProtocol /\ Len(location) < 2 THEN rawUrl
  ELSE href \o search

\* the index after the match of the pattern at i, 0 if it does not match there
MatchEnd(pattern, s, i) ==
  CASE pattern = "\\r" -> IF s[i] = "\r" THEN i + 1 ELSE 0
    [] pattern = "\\t+" -> RunEnd(s, i, {"\t"})
    [] pattern = "[ \\t]+\\n" ->
         LET b == RunEnd(s, i, Blank) IN
         IF b > i /\ At(s, b) = "\n" THEN b + 1 ELSE 0
    [] pattern = "^-{5,}\\s*$" ->
         LET d == RunEnd(s, i, {"-"}) IN
         IF LineStart(s, i) /\ d - i >= 5 THEN SpaceToEol(s, d) ELSE 0
    [] pattern = "^\\s*\\d{1,3}\\s*$" ->
         LET w == RunEnd(s, i, Space)
             d == RunEnd(s, w, Digit) IN
         IF LineStart(s, i) /\ d - w \in 1..3 THEN SpaceToEol(s, d) ELSE 0
    [] pattern = "(?:^|\\n)---\\n+Post\\s*(?=\\n|$)" ->
         LET d == IF i = 1 /\ s[i] = "-" THEN i ELSE IF s[i] = "\n" THEN i + 1 ELSE 0
             n == RunEnd(s, d + 3, {"\n"}) IN
         IF /\ d > 0
            /\ At(s, d) = "-" /\ At(s, d + 1) = "-" /\ At(s, d + 2) = "-"
            /\ n > d + 3 /\ At(s, n) = "Post"
           THEN SpaceToEol(s, n + 1) ELSE 0
    [] pattern = "\\(#(?:comments?|respond)\\)" ->
         IF s[i] = "(" /\ At(s, i + 1) = "#"
           THEN IF ToLowerCase(At(s, i + 2)) \in {"comment", "respond"} /\ At(s, i + 3) = ")"
                  THEN i + 4
                ELSE IF /\ ToLowerCase(At(s, i + 2)) = "comment"
                        /\ ToLowerCase(At(s, i + 3)) = "s" /\ At(s, i + 4) = ")"
                  THEN i + 5
                ELSE 0
           ELSE 0
    [] pattern = "-{20,}" ->
         LET d == RunEnd(s, i, {"-"}) IN IF d - i >= 20 THEN d ELSE 0
    [] pattern = "^(?:#{1,6})\\s*$" ->
         LET h == RunEnd(s, i, {"#"}) IN
         IF LineStart(s, i) /\ h - i \in 1..6 THEN SpaceToEol(s, h) ELSE 0
    [] pattern = "^\\s{3,}([-*+] )" ->
         LET w == RunEnd(s, i, Space) IN
         IF LineStart(s, i) /\ w - i >= 3 /\ At(s, w) \in Bullet /\ At(s, w + 1) = " "
           THEN w + 2 ELSE 0
    [] pattern = "\\n{3,}" ->
         LET n == RunEnd(s, i, {"\n"}) IN IF n - i >= 3 THEN n ELSE 0
    [] pattern = "[ \\t]+$" ->
         LET b == RunEnd(s, i, Blank) IN IF b > i /\ LineEnd(s, b) THEN b ELSE 0
    [] pattern = "\\[([^\\]]+)\\]\\(([^)]+)\\)" ->
         LET t == IndexOf(s, i + 1, "]")
             u == IndexOf(s, t + 2, ")") IN
         IF s[i] = "[" /\ t > i + 1 /\ At(s, t + 1) = "(" /\ u > t + 2 /\ u <= Len(s)
           THEN u + 1 ELSE 0
    [] pattern = "!\\[([^\\]]*)\\]\\(([^)]+)\\)" ->
         LET t == IndexOf(s, i + 2, "]")
             u == IndexOf(s, t + 2, ")") IN
         IF /\ s[i] = "!" /\ At(s, i + 1) = "["
            /\ At(s, t + 1) = "(" /\ u > t + 2 /\ u <= Len(s)
           THEN u + 1 ELSE 0

\* what the match s[i..e-1] of the pattern is replaced with
Replacement(pattern, s, i, e) ==
  CASE pattern \in {"\\r", "^\\s*\\d{1,3}\\s*$", "^(?:#{1,6})\\s*$", "[ \\t]+$"} -> <<>>
    [] pattern = "\\t+" -> <<" ">>
    [] pattern \in {"[ \\t]+\\n", "(?:^|\\n)---\\n+Post\\s*(?=\\n|$)"} -> <<"\n">>
    [] pattern = "^-{5,}\\s*$" -> <<"-", "-", "-">>
    [] pattern = "\\(#(?:comments?|respond)\\)" -> <<")">>
    \* the three characters U+00E2 U+20AC U+201D of the source file
    [] pattern = "-{20,}" -> <<"<U+00E2>", "<U+20AC>", "<U+201D>">>
    [] pattern = "^\\s{3,}([-*+] )" -> <<s[e - 2], " ">>
    [] pattern = "\\n{3,}" -> <<"\n", "\n">>
    [] pattern = "\\[([^\\]]+)\\]\\(([^)]+)\\)" ->
         LET t == IndexOf(s, i + 1, "]") IN
         <<"[">> \o trimStart(trimEnd(SubSeq(s, i + 1, t - 1))) \o <<"]", "(">>
           \o sanitizeUrl(SubSeq(s, t + 2, e - 2)) \o <<")">>
    [] pattern = "!\\[([^\\]]*)\\]\\(([^)]+)\\)" ->
         LET t == IndexOf(s, i + 2, "]") IN
         <<"!", "[">> \o trimStart(trimEnd(SubSeq(s, i + 2, t - 1))) \o <<"]", "(">>
           \o sanitizeUrl(SubSeq(s, t + 2, e - 2)) \o <<")">>

\* s.replace(/pattern/g, ..), from index i on
RECURSIVE replace(_, _, _)
replace(pattern, s, i) ==
  IF i > Len(s) THEN <<>>
  ELSE LET e == MatchEnd(pattern, s, i) IN
       IF e > i THEN Replacement(pattern, s, i, e) \o replace(pattern, s, e)
       ELSE <<s[i]>> \o replace(pattern, s, i + 1)

\* the replacements in the order they are chained
RECURSIVE replaceEach(_, _)
replaceEach(patterns, s) ==
  IF patterns = <<>> THEN s
  ELSE replaceEach(Tail(patterns), replace(Head(patterns), s, 1))

\* function normalizeLinks(markdown)
normalizeLinks(markdown) ==
  replaceEach(<<"\\[([^\\]]+)\\]\\(([^)]+)\\)", "!\\[([^\\]]*)\\]\\(([^)]+)\\)">>, markdown)

\* .filter((line, index, arr) => ..): a blank line after a blank line is dropped
dropRepeatedBlankLines(arr) ==
  LET blank(line) == trimEnd(line) = <<>>
      keep == {k \in DOMAIN arr : ~(blank(arr[k]) /\ k > 1 /\ blank(arr[k - 1]))}
      nth(n) == CHOOSE k \in keep : Cardinality({j \in keep : j <= k}) = n
  IN [n \in 1..Cardinality(keep) |-> arr[nth(n)]]

\* the second chain of replacements of cleanMarkdown
cleanPatterns ==
  <<"^-{5,}\\s*$", "^\\s*\\d{1,3}\\s*$", "(?:^|\\n)---\\n+Post\\s*(?=\\n|$)",
    "\\(#(?:comments?|respond)\\)", "-{20,}", "^(?:#{1,6})\\s*$",
    "^\\s{3,}([-*+] )", "\\n{3,}", "[ \\t]+$">>

\* export const cleanMarkdown = (markdown) => ..
cleanMarkdown(markdown) ==
  IF markdown = <<>> THEN <<>>
  ELSE LET first == replaceEach(<<"\\r", "\\t+", "[ \\t]+\\n">>, markdown)
           second == replaceEach(cleanPatterns, first)
           lines == split(second, "\n")
           trimmed == [k \in DOMAIN lines |-> trimEnd(lines[k])]
           third == join(dropRepeatedBlankLines(trimmed), "\n")
       IN trimStart(trimEnd(normalizeLinks(third)))

----------------------------------------------------------------------------
(* utils/markdown.js, htmlHandler.js, pdfHandler.js: the functions applied *)

\* the number of lines of a Markdown string, of query parameters of a link
\* target, of headings of a document, of results compared
MaxLines == 3
MaxParams == 3
MaxHeadings == 3
MaxResults == 2

\* the sequences over S of at most n elements
SeqsUpTo(S, n) == UNION {[1..k -> S] : k \in 0..n}

\* lines as turndown and pdf2md can produce them
Lines ==
  { <<>>, <<"a">>, <<"a", " ">>, <<"1">>, <<"#">>, <<"#", " ", "a">>, <<"Post">>,
    <<"-", "-", "-">>, <<"-", "-", "-", "-", "-">>,
    <<" ", " ", " ", "-", " ", "a">>, <<"\t", "a", "\r">>,
    <<"a", "(", "#", "comment", "s", ")">> }

\* the Markdown strings cleanMarkdown is applied to
Markdowns == {join(lines, "\n") : lines \in SeqsUpTo(Lines, MaxLines)}

\* the names of the query parameters of a link target
ParamNames ==
  { <<"utm_", "source">>, <<"UTM_", "medium">>, <<"gclid">>, <<"gclid", "x">>,
    <<"ref", "erence">>, <<"pre", "ref">>, <<"id">> }

\* the query string of the parameters with these names; the value of a
\* parameter is its position
QueryOf(names) ==
  join([k \in DOMAIN names |-> names[k] \o <<"=", <<"1", "2", "3", "4">>[k]>>], "&")

\* link and image targets: absolute, relative, and of another scheme
Targets ==
  { location \o (IF names = <<>> THEN <<>> ELSE <<"?">> \o QueryOf(names)) \o fragment :
      location \in { <<"https:", "//h", "/a">>, <<"HTTP:", "//h">>, <<"/a">>,
                     <<"mailto:", "a">> },
      names \in SeqsUpTo(ParamNames, MaxParams),
      fragment \in {<<>>, <<"#", "f">>} }

\* the Markdown strings normalizeLinks is applied to: a link or an image
LinkMarkdowns ==
  { opening \o <<"]", "(">> \o target \o <<")">> :
      opening \in {<<"[", " ", "a">>, <<"!", "[">>}, target \in Targets }

\* createHash('sha256').update(data).digest('hex'): a value that the data
\* determines and that determines the data (SHA-256 taken as free of collisions)
sha256(data) == [algorithm |-> "sha256", encoding |-> "hex", of |-> data]

\* mutant: the hash is taken of the Markdown as converted, before it is cleaned
hashOfConverted(converted, markdown) == sha256(converted)

\* const hash = createHash('sha256').update(markdown).digest('hex')
hashOf(converted, markdown) == sha256(markdown)

\* htmlHandler.js processHtml: markdown is what extractHtmlContent returned,
\* cleanMarkdown(turndown.turndown(html)), for the Markdown turndown converted
\* the page to
processHtml(converted, markdown) ==
  [kind |-> "html", markdown |-> markdown, hash |-> hashOf(converted, markdown)]

\* pdfHandler.js processPdfBuffer: markdown is what convertPdfBufferToMarkdown
\* returned, cleanMarkdown(pdfMarkdown), for the Markdown pdf2md converted
\* the buffer to
processPdfBuffer(converted, markdown) ==
  [kind |-> "pdf", markdown |-> markdown, hash |-> hashOf(converted, markdown)]

\* the h1 (or h2) elements of a document, in document order: the text of
\* each and whether it stands in an element that sanitizing removes
\* (header, nav, footer, .., or hidden)
HeadingNodes ==
  [text : {<<"A">>, <<" ", "A", " ">>, <<"B">>, <<"B", "\n", "C">>, <<>>, <<" ">>},
   removed : BOOLEAN]
Documents == [headings : SeqsUpTo(HeadingNodes, MaxHeadings), shouldSanitize : BOOLEAN]

\* arr.filter((text, index, arr) => arr.indexOf(text) === index), Array.from(new Set(arr))
distinct(arr) ==
  LET first == {k \in DOMAIN arr : \A j \in 1..(k - 1) : arr[j] # arr[k]}
      nth(n) == CHOOSE k \in first : Cardinality({j \in first : j <= k}) = n
  IN [n \in 1..Cardinality(first) |-> arr[nth(n)]]

\* the trimmed, non-empty texts of the nodes
texts(nodes) ==
  SelectSeq([k \in DOMAIN nodes |-> trimStart(trimEnd(nodes[k].text))],
            LAMBDA text : text # <<>>)

\* uniqueText(selector), on the clone of the root after removeBySelectors
uniqueText(document) ==
  distinct(texts(SelectSeq(document.headings,
                           LAMBDA node : ~(document.shouldSanitize /\ node.removed))))

\* the fallback: html.matchAll(/<h1[^>]*>(.*?)<\/h1>/gi) on the raw HTML,
\* where . matches no line break, then new Set(..) and slice(0, 5)
fallbackHeadings(document) ==
  LET matches == SelectSeq(document.headings, LAMBDA node : \A k \in DOMAIN node.text : node.text[k] # "\n")
      unique == distinct(texts(matches))
  IN SubSeq(unique, 1, IF Len(unique) < 5 THEN Len(unique) ELSE 5)

\* every variable of the crawl handlers
crawlVars ==
  <<handler, req, targetUrl, browser, context, page, objs, retried, err,
    navigationAttempts, navigationResponse, finalUrl, processedAsPdf, upstreamStatus,
    result, sent, totalCrawls, successfulCrawls, log, redirectChain, extraction,
    verificationVars>>

\* no crawl is under way
NoCrawl ==
  /\ req = [method |-> "GET", url |-> Undefined]
  /\ targetUrl = <<>>
  /\ browser = 0 /\ context = 0 /\ page = 0
  /\ objs = <<>>
  /\ retried = FALSE
  /\ err = NoError
  /\ navigationAttempts = 0
  /\ navigationResponse = NoResponse
  /\ finalUrl = <<>>
  /\ processedAsPdf = FALSE
  /\ upstreamStatus = 0
  /\ result = NoResult
  /\ sent = <<>>
  /\ totalCrawls = 0 /\ successfulCrawls = 0
  /\ log = <<>>
  /\ redirectChain = <<>>
  /\ extraction = NoExtraction
  /\ redirectLimitExceeded = FALSE /\ redirectCountObserved = 0
  /\ request = 0
  /\ challenge = "none"
  /\ elapsed = 0
  /\ poll = NotPolled
  /\ verificationResult = NoVerification

MarkdownInit ==
  /\ handler = "markdown"
  /\ pc = "idle"
  /\ NoCrawl
  /\ NoMarkdown
  /\ NoManager
  /\ NoService
  /\ NoReads

\* cleanMarkdown(markdown): of any Markdown, and of the converted page or
\* PDF of a further crawl
CleanMarkdown ==
  /\ \E markdown \in Markdowns :
       /\ \/ pc = "idle"
          \/ pc = "processed" /\ Len(results) < MaxResults /\ markdown \in Lines
       /\ input' = markdown
       /\ output' = cleanMarkdown(markdown)
  /\ pc' = "cleaned"
  /\ UNCHANGED <<crawlVars, managerVars, serviceVars, readVars, reapplied, results>>

\* cleanMarkdown of what cleanMarkdown returned
CleanMarkdownAgain ==
  /\ pc = "cleaned"
  /\ reapplied' = cleanMarkdown(output)
  /\ pc' = "cleanedAgain"
  /\ UNCHANGED <<crawlVars, managerVars, serviceVars, readVars, input, output, results>>

\* normalizeLinks(markdown)
NormalizeLinks ==
  /\ pc = "idle"
  /\ \E markdown \in LinkMarkdowns :
       /\ input' = markdown
       /\ output' = normalizeLinks(markdown)
  /\ pc' = "normalized"
  /\ UNCHANGED <<crawlVars, managerVars, serviceVars, readVars, reapplied, results>>

\* processHtml(page, response, ..) of a crawl whose page was converted and cleaned
ProcessHtml ==
  /\ pc = "cleaned" /\ input \in Lines
  /\ results' = Append(results, processHtml(input, output))
  /\ pc' = "processed"
  /\ UNCHANGED <<crawlVars, managerVars, serviceVars, readVars, input, output, reapplied>>

\* processPdfBuffer(buffer, url) of a crawl whose PDF was converted and cleaned
ProcessPdfBuffer ==
  /\ pc = "cleaned" /\ input \in Lines
  /\ results' = Append(results, processPdfBuffer(input, output))
  /\ pc' = "processed"
  /\ UNCHANGED <<crawlVars, managerVars, serviceVars, readVars, input, output, reapplied>>

\* the metadata of extractHtmlContent, from the in-page evaluation
EvaluateMetadata ==
  /\ pc = "idle"
  /\ \E document \in Documents :
       /\ input' = document
       /\ output' = [h1 |-> uniqueText(document), fallback |-> FALSE]
  /\ pc' = "extracted"
  /\ UNCHANGED <<crawlVars, managerVars, serviceVars, readVars, reapplied, results>>

\* the metadata of extractHtmlContent, from the raw HTML after the
\* execution context was destroyed
FallbackMetadata ==
  /\ pc = "idle"
  /\ \E document \in Documents :
       /\ input' = document
       /\ output' = [h1 |-> fallbackHeadings(document), fallback |-> TRUE]
  /\ pc' = "extracted"
  /\ UNCHANGED <<crawlVars, managerVars, serviceVars, readVars, reapplied, results>>

\* the candidate containers of one document
MaxCandidates == 2

SCORE_CONTENT_FLOOR == 150

\* a node as scoreNode sees it: the length of its innerText with white space
\* collapsed, and the number of its p, li, h1, h2, h3, figure and table
\* descendants
Nodes == [text : {0, 80, 115, 150}, structure : 0..2]

\* a document: its body, and its candidate containers in the order of
\* CANDIDATE_SELECTORS and of the document
ScoredDocuments == [body : Nodes, candidates : SeqsUpTo(Nodes, MaxCandidates)]

\* const scoreNode = (node) => text.length + structureScore
scoreNode(node) == node.text + node.structure * 35

\* mutant: a candidate of equal score replaces the best
replacesOnTie(candidateScore, bestScore) == candidateScore >= bestScore

\* if (candidateScore > bestScore)
replaces(candidateScore, bestScore) == candidateScore > bestScore

\* mutant: the floor is never applied
belowFloorNever(bestScore) == FALSE

\* if (bestScore < scoreFloor)
belowFloor(bestScore) == bestScore < SCORE_CONTENT_FLOOR

\* root and bestScore after candidates.forEach has visited the first k
\* candidates; root 0 is document.body
RECURSIVE visited(_, _)
visited(document, k) ==
  IF k = 0 THEN [root |-> 0, bestScore |-> scoreNode(document.body)]
  ELSE LET before == visited(document, k - 1)
           candidateScore == scoreNode(document.candidates[k])
       IN IF replaces(candidateScore, before.bestScore)
            THEN [root |-> k, bestScore |-> candidateScore]
            ELSE before

\* lines 250-262: the root extractHtmlContent clones
selectRoot(document) ==
  LET chosen == visited(document, Len(document.candidates)) IN
  IF belowFloor(chosen.bestScore) THEN 0 ELSE chosen.root

\* extractHtmlContent, lines 232-262: the candidates are scored and the root
\* is chosen
SelectRoot ==
  /\ pc = "idle"
  /\ \E document \in ScoredDocuments :
       /\ input' = document
       /\ output' = [root |-> selectRoot(document)]
  /\ pc' = "rooted"
  /\ UNCHANGED <<crawlVars, managerVars, serviceVars, readVars, reapplied, results>>

MarkdownNext ==
  \/ CleanMarkdown \/ CleanMarkdownAgain \/ NormalizeLinks
  \/ ProcessHtml \/ ProcessPdfBuffer
  \/ EvaluateMetadata \/ FallbackMetadata
  \/ SelectRoot

MarkdownSpec == MarkdownInit /\ [][MarkdownNext]_vars

----------------------------------------------------------------------------
(* services/browserManager.js: the shared browser and the per-request
   browsers; browserService.js (shared variant), which keeps the shared one *)

\* getBrowser acquisitions started, browsers launched, getBrowser calls of
\* other callers, createNewBrowserInstance calls, closeSharedBrowser calls
\* and shared-mode crawls of one run
MaxPromises == 2
MaxBrowsers == 2
MaxCalls == 2
MaxInstances == 1
MaxClosings == 2
MaxCrawls == 1

\* the strategies of getBrowser in the order tried: tryConnectCDP,
\* tryLaunchChannel('chrome'), tryLaunchChannel('chromium'),
\* tryLaunchExecutable, tryLaunchDefault
Strategies == <<"cdp", "chrome", "chromium", "executable", "default">>

\* the strategies of createNewBrowserInstance in the order tried
FreshStrategies == <<"chrome", "chromium", "executable", "default">>

\* no error
NoFailure == [text |-> "", underlying |-> ""]

\* the promise of the async function of getBrowser, awaiting its first strategy
Pending == [status |-> "pending", strategy |-> 1, browser |-> 0, error |-> NoFailure]

\* attachLifecycle(browser, { shared }): the 'disconnected' listener of the
\* browser resets the shared promise if shared
attachLifecycle(b, shared) == [b EXCEPT !.shared = shared]

\* tryConnectCDP, tryLaunchChannel, tryLaunchExecutable, tryLaunchDefault:
\* each ends with attachLifecycle(browser, { shared: true }), whoever called it
tryLaunch(by) == attachLifecycle([connected |-> TRUE, by |-> by, shared |-> FALSE], TRUE)

\* the 'disconnected' listener: if (shared) browserPromise = null
onDisconnected(b, promise) == IF b.shared THEN 0 ELSE promise

\* new Error(`Failed to obtain a browser instance.\nLast underlying error:
\* ${String(lastError?.message || lastError || err)}\n${hints}`)
obtainError(last, e) ==
  [text |-> "Failed to obtain a browser instance.",
   underlying |-> IF last # "" THEN last ELSE e]

\* new Error(`Failed to create new browser instance: ${err.message}`)
createError(e) == [text |-> "Failed to create new browser instance", underlying |-> e]

\* mutant: the promise is awaited without .catch
settledValueUncaught(promise) ==
  [threw |-> promise.status = "rejected", browser |-> promise.browser]

\* await browserPromise.catch(() => null)
settledValue(promise) ==
  [threw |-> FALSE,
   browser |-> IF promise.status = "fulfilled" THEN promise.browser ELSE 0]

ManagerInit ==
  /\ handler = "manager"
  /\ pc = "idle"
  /\ NoCrawl
  /\ NoMarkdown
  /\ NoManager
  /\ NoService
  /\ NoReads

\* getBrowser(), up to the first await of the function it starts: called by
\* a request handler, or by browserService.js when it is loaded
\* (let sharedBrowser = await getBrowser())
GetBrowser ==
  /\ handler = "manager"
  /\ \E caller \in {"handler", "browserService"} :
       /\ IF caller = "browserService"
            THEN sharedBrowser.status = "unloaded"
            ELSE Len(acquired) < MaxCalls
       /\ IF browserPromise # 0
            THEN UNCHANGED <<browserPromise, promises>>
            ELSE /\ Len(promises) < MaxPromises
                 /\ promises' = Append(promises, Pending)
                 /\ browserPromise' = Len(promises) + 1
       /\ IF caller = "browserService"
            THEN /\ sharedBrowser' = [status |-> "awaiting", promise |-> browserPromise',
                                      browser |-> 0]
                 /\ UNCHANGED acquired
            ELSE /\ acquired' = Append(acquired, browserPromise')
                 /\ UNCHANGED sharedBrowser
  /\ UNCHANGED <<lastError, browsers, instances, closings, crawls>>
  /\ UNCHANGED <<crawlVars, pc, markdownVars, serviceVars, readVars>>

\* getBrowser, lines 123-149: the strategy awaited resolves with a browser
StrategySucceeds ==
  /\ handler = "manager"
  /\ Len(browsers) < MaxBrowsers
  /\ \E p \in DOMAIN promises :
       /\ promises[p].status = "pending"
       /\ browsers' = Append(browsers, tryLaunch("getBrowser"))
       /\ promises' = [promises EXCEPT ![p].status = "fulfilled",
                                       ![p].browser = Len(browsers) + 1]
  /\ UNCHANGED <<browserPromise, lastError, acquired, instances, closings,
                 sharedBrowser, crawls>>
  /\ UNCHANGED <<crawlVars, pc, markdownVars, serviceVars, readVars>>

\* getBrowser, lines 125-166: the strategy awaited fails; lastError = e and
\* the next one is tried, or after the last one the shared promise is
\* cleared and the error is thrown
StrategyFails ==
  /\ handler = "manager"
  /\ \E p \in DOMAIN promises :
       /\ promises[p].status = "pending"
       /\ IF promises[p].strategy < Len(Strategies)
            THEN /\ lastError' = Strategies[promises[p].strategy]
                 /\ promises' = [promises EXCEPT ![p].strategy = @ + 1]
                 /\ UNCHANGED browserPromise
            ELSE /\ browserPromise' = 0
                 /\ promises' =
                      [promises EXCEPT
                         ![p].status = "rejected",
                         ![p].error = obtainError(lastError, Strategies[promises[p].strategy])]
                 /\ UNCHANGED lastError
  /\ UNCHANGED <<browsers, acquired, instances, closings, sharedBrowser, crawls>>
  /\ UNCHANGED <<crawlVars, pc, markdownVars, serviceVars, readVars>>

\* createNewBrowserInstance(): one of its strategies launches a browser, or
\* all four fail and the error of the last one is wrapped and thrown
CreateNewBrowserInstance ==
  /\ handler = "manager"
  /\ Len(instances) < MaxInstances
  /\ \/ /\ Len(browsers) < MaxBrowsers
        /\ browsers' = Append(browsers, tryLaunch("createNewBrowserInstance"))
        /\ instances' = Append(instances, [browser |-> Len(browsers) + 1,
                                           error |-> NoFailure])
     \/ /\ instances' = Append(instances,
                          [browser |-> 0,
                           error |-> createError(FreshStrategies[Len(FreshStrategies)])])
        /\ UNCHANGED browsers
  /\ UNCHANGED <<browserPromise, lastError, promises, acquired, closings,
                 sharedBrowser, crawls>>
  /\ UNCHANGED <<crawlVars, pc, markdownVars, serviceVars, readVars>>

\* a browser disconnects (it crashed, or its owner closed it): its
\* 'disconnected' listener runs
Disconnected ==
  /\ handler = "manager"
  /\ \E b \in DOMAIN browsers :
       /\ browsers[b].connected
       /\ browsers' = [browsers EXCEPT ![b].connected = FALSE]
       /\ browserPromise' = onDisconnected(browsers[b], browserPromise)
  /\ UNCHANGED <<lastError, promises, acquired, instances, closings, sharedBrowser, crawls>>
  /\ UNCHANGED <<crawlVars, pc, markdownVars, serviceVars, readVars>>

\* closeSharedBrowser(), lines 177-179: returns at once without a promise,
\* else awaits the promise
CloseSharedBrowser ==
  /\ handler = "manager"
  /\ Len(closings) < MaxClosings
  /\ closings' = Append(closings,
                    IF browserPromise = 0
                      THEN [promise |-> 0, at |-> "returned", browser |-> 0]
                      ELSE [promise |-> browserPromise, at |-> "await", browser |-> 0])
  /\ UNCHANGED <<browserPromise, lastError, promises, browsers, acquired, instances,
                 sharedBrowser, crawls>>
  /\ UNCHANGED <<crawlVars, pc, markdownVars, serviceVars, readVars>>

\* closeSharedBrowser, lines 179-182: the promise has settled; the browser,
\* if there is one, is closed (and disconnects), else the finally block runs
CloseSharedBrowserSettled ==
  /\ handler = "manager"
  /\ \E c \in DOMAIN closings :
       /\ closings[c].at = "await"
       /\ promises[closings[c].promise].status # "pending"
       /\ LET b == settledValue(promises[closings[c].promise]) IN
          IF b.threw \/ b.browser = 0
            THEN /\ browserPromise' = 0
                 /\ closings' = [closings EXCEPT
                                   ![c].at = IF b.threw THEN "threw" ELSE "returned"]
                 /\ UNCHANGED browsers
            ELSE /\ browsers' = [browsers EXCEPT ![b.browser].connected = FALSE]
                 /\ browserPromise' =
                      IF browsers[b.browser].connected
                        THEN onDisconnected(browsers[b.browser], browserPromise)
                        ELSE browserPromise
                 /\ closings' = [closings EXCEPT ![c].at = "close", ![c].browser = b.browser]
  /\ UNCHANGED <<lastError, promises, acquired, instances, sharedBrowser, crawls>>
  /\ UNCHANGED <<crawlVars, pc, markdownVars, serviceVars, readVars>>

\* closeSharedBrowser, lines 180-183: b.close() has resolved; finally
\* browserPromise = null
CloseSharedBrowserFinally ==
  /\ handler = "manager"
  /\ \E c \in DOMAIN closings :
       /\ closings[c].at = "close"
       /\ closings' = [closings EXCEPT ![c].at = "returned"]
  /\ browserPromise' = 0
  /\ UNCHANGED <<lastError, promises, browsers, acquired, instances, sharedBrowser, crawls>>
  /\ UNCHANGED <<crawlVars, pc, markdownVars, serviceVars, readVars>>

\* browserService.js:170  let sharedBrowser = await getBrowser(): the promise
\* has settled
SharedBrowserReady ==
  /\ handler = "manager"
  /\ sharedBrowser.status = "awaiting"
  /\ promises[sharedBrowser.promise].status # "pending"
  /\ sharedBrowser' =
       IF promises[sharedBrowser.promise].status = "fulfilled"
         THEN [sharedBrowser EXCEPT !.status = "ready",
                                    !.browser = promises[sharedBrowser.promise].browser]
         ELSE [sharedBrowser EXCEPT !.status = "failed"]
  /\ UNCHANGED <<browserPromise, lastError, promises, browsers, acquired, instances,
                 closings, crawls>>
  /\ UNCHANGED <<crawlVars, pc, markdownVars, serviceVars, readVars>>

\* browserService.js:203 (shared variant)  context = await
\* sharedBrowser.newContext(..): of the browser kept since the module was
\* loaded; it throws if that browser is disconnected
SharedNewContext ==
  /\ handler = "manager"
  /\ sharedBrowser.status = "ready"
  /\ Len(crawls) < MaxCrawls
  /\ crawls' = Append(crawls, [browser |-> sharedBrowser.browser,
                               connected |-> browsers[sharedBrowser.browser].connected])
  /\ UNCHANGED <<browserPromise, lastError, promises, browsers, acquired, instances,
                 closings, sharedBrowser>>
  /\ UNCHANGED <<crawlVars, pc, markdownVars, serviceVars, readVars>>

ManagerNext ==
  \/ GetBrowser \/ StrategySucceeds \/ StrategyFails
  \/ CreateNewBrowserInstance \/ Disconnected
  \/ CloseSharedBrowser \/ CloseSharedBrowserSettled \/ CloseSharedBrowserFinally
  \/ SharedBrowserReady \/ SharedNewContext

ManagerSpec == ManagerInit /\ [][ManagerNext]_vars

----------------------------------------------------------------------------
(* services/htmlHandler.js: handleRequest({ context, page, response, url }) *)
(* One call is followed: the caller passes an open page (with or without   *)
(* the response of its navigation) or no page.                             *)

MsgNoResponseFromPage == "No response from page"

\* mutant: the page is closed whoever created it
closesPageAlways(c, p) == p # 0

\* htmlHandler.js:41  if (created && page)
closesPage(c, p) == c /\ p # 0

HtmlHandlerInit ==
  /\ handler = "htmlHandler"
  /\ pc = "idle"
  /\ NoCrawl
  /\ NoMarkdown
  /\ NoManager
  /\ NoService
  /\ NoReads

\* the call: the caller's context, and the page and the response it passes
\* (page = null, response = null by default)
HandleRequest ==
  /\ handler = "htmlHandler" /\ pc = "idle"
  /\ \E given \in BOOLEAN, response \in {NoResponse} \cup Responses, url \in ResponseUrls :
       /\ objs' = <<Object("browser", 0, 1), Object("context", 1, 1)>>
                    \o (IF given THEN <<Object("page", 2, 1)>> ELSE <<>>)
       /\ browser' = 1 /\ context' = 2
       /\ page' = IF given THEN 3 ELSE 0
       /\ navigationResponse' = response
       /\ targetUrl' = url
  /\ created' = FALSE
  /\ pc' = "try"
  /\ UNCHANGED <<handler, req, retried, err, navigationAttempts, finalUrl,
                 processedAsPdf, upstreamStatus, result, sent, totalCrawls,
                 successfulCrawls, log, redirectChain, extraction, verificationVars>>
  /\ UNCHANGED <<markdownVars, managerVars, crawlers, statusNotes, snapshot, readVars>>

\* lines 32-34: if (!page) { page = await context.newPage(); created = true;
\* newPage can throw, and then neither page nor created is assigned
HandleRequestNewPage ==
  /\ handler = "htmlHandler" /\ pc = "try" /\ page = 0
  /\ \/ /\ objs' = Append(objs, Object("page", context, 1))
        /\ page' = NextId
        /\ created' = TRUE
        /\ log' = Append(log, Ev("newPage", NextId, <<>>))
        /\ pc' = "goto"
        /\ UNCHANGED err
     \/ /\ err' = ClosedError(MsgSocket)
        /\ pc' = "finally"
        /\ UNCHANGED <<objs, page, created, log>>
  /\ UNCHANGED <<handler, req, targetUrl, browser, context, retried,
                 navigationAttempts, navigationResponse, finalUrl,
                 processedAsPdf, upstreamStatus, result, sent, totalCrawls,
                 successfulCrawls, redirectChain, extraction, verificationVars>>
  /\ UNCHANGED <<markdownVars, managerVars, crawlers, statusNotes, snapshot, readVars>>

\* line 35: response = await page.goto(url, { waitUntil: 'domcontentloaded' })
HandleRequestGoto ==
  /\ handler = "htmlHandler" /\ pc = "goto"
  /\ \E o \in GotoOutcomes(page) :
       /\ log' = Append(log, Ev("goto", page, targetUrl))
       /\ IF o.kind = "error"
            THEN err' = o.error /\ pc' = "finally" /\ UNCHANGED navigationResponse
            ELSE navigationResponse' = o.resp /\ pc' = "response" /\ UNCHANGED err
  /\ UNCHANGED <<handler, req, targetUrl, browser, context, page, objs, retried,
                 navigationAttempts, finalUrl, processedAsPdf, upstreamStatus,
                 result, sent, totalCrawls, successfulCrawls, redirectChain,
                 extraction, verificationVars>>
  /\ UNCHANGED <<markdownVars, managerVars, serviceVars, readVars>>

\* lines 38-39: if (!response) throw new Error('No response from page');
\* return await processHtml(page, response, url, redirects)
\* (reached with the page passed in, or after the goto)
HandleRequestProcess ==
  /\ handler = "htmlHandler"
  /\ pc = "response" \/ (pc = "try" /\ page # 0)
  /\ IF navigationResponse = NoResponse
       THEN err' = Error(MsgNoResponseFromPage) /\ UNCHANGED result
       ELSE \/ /\ result' = [kind |-> "html", status |-> navigationResponse.status]
               /\ UNCHANGED err
            \/ /\ \E e \in HtmlFailures(page) : err' = e
               /\ UNCHANGED result
  /\ pc' = "finally"
  /\ UNCHANGED <<handler, req, targetUrl, browser, context, page, objs, retried,
                 navigationAttempts, navigationResponse, finalUrl, processedAsPdf,
                 upstreamStatus, sent, totalCrawls, successfulCrawls, log,
                 redirectChain, extraction, verificationVars>>
  /\ UNCHANGED <<markdownVars, managerVars, serviceVars, readVars>>

\* lines 40-42: finally { if (created && page) await page.close().catch(() => {}) }
\* and then the value is returned or the error leaves the function
HandleRequestFinally ==
  /\ handler = "htmlHandler" /\ pc = "finally"
  /\ IF closesPage(created, page)
       THEN /\ objs' = close(objs, page)
            /\ log' = Append(log, Ev("close", page, <<>>))
       ELSE UNCHANGED <<objs, log>>
  /\ pc' = IF err = NoError THEN "returned" ELSE "thrown"
  /\ UNCHANGED <<handler, req, targetUrl, browser, context, page, retried, err,
                 navigationAttempts, navigationResponse, finalUrl, processedAsPdf,
                 upstreamStatus, result, sent, totalCrawls, successfulCrawls,
                 redirectChain, extraction, verificationVars>>
  /\ UNCHANGED <<markdownVars, managerVars, serviceVars, readVars>>

HtmlHandlerNext ==
  \/ HandleRequest \/ HandleRequestNewPage \/ HandleRequestGoto
  \/ HandleRequestProcess \/ HandleRequestFinally

HtmlHandlerSpec == HtmlHandlerInit /\ [][HtmlHandlerNext]_vars

----------------------------------------------------------------------------
(* statusTracker.js: the counters of the /status endpoint.  An error is a  *)
(* string, "null" stands for null and undefined.                           *)

MaxRecords == 3
MaxSnapshots == 1

RecordedErrors == {"null", "", "Failed to crawl URL"}
RecordedStatusCodes == {200, 500}

\* if (error): null, undefined and the empty string are falsy
truthy(error) == error \notin {"null", ""}

\* mutant: the failed PDF conversions are left out of the total
failedTotalOfCrawls(notes) == notes.failedCrawls

\* statusTracker.js:137  failedTotal: statusNotes.failedCrawls +
\* statusNotes.pdfConversionFailures
failedTotal(notes) == notes.failedCrawls + notes.pdfConversionFailures

\* the counters and the last status and error of getSnapshot's object
getSnapshot(notes) ==
  [totalCrawls |-> notes.totalCrawls,
   successfulCrawls |-> notes.successfulCrawls,
   failedCrawls |-> notes.failedCrawls,
   pdfAttempts |-> notes.pdfAttempts,
   pdfConversions |-> notes.pdfConversions,
   pdfConversionFailures |-> notes.pdfConversionFailures,
   failedTotal |-> failedTotal(notes),
   lastStatusCode |-> notes.lastStatusCode,
   lastError |-> notes.lastError]

TrackerInit ==
  /\ handler = "statusTracker"
  /\ pc = "idle"
  /\ NoCrawl
  /\ NoMarkdown
  /\ NoManager
  /\ NoService
  /\ NoReads

RecordsLeft == statusNotes.totalCrawls + statusNotes.pdfAttempts < MaxRecords

\* recordCrawlResult({ statusCode, error, url })
RecordCrawlResult ==
  /\ handler = "statusTracker" /\ RecordsLeft
  /\ \E statusCode \in RecordedStatusCodes, error \in RecordedErrors :
       statusNotes' =
         IF truthy(error)
           THEN [statusNotes EXCEPT !.totalCrawls = @ + 1,
                                    !.lastStatusCode = statusCode,
                                    !.failedCrawls = @ + 1,
                                    !.lastError = error]
           ELSE [statusNotes EXCEPT !.totalCrawls = @ + 1,
                                    !.lastStatusCode = statusCode,
                                    !.successfulCrawls = @ + 1,
                                    !.lastError = "null"]
  /\ UNCHANGED <<crawlVars, pc, markdownVars, managerVars, created, crawlers, snapshot, readVars>>

\* recordPdfConversion({ statusCode, error })
RecordPdfConversion ==
  /\ handler = "statusTracker" /\ RecordsLeft
  /\ \E statusCode \in RecordedStatusCodes, error \in RecordedErrors :
       statusNotes' =
         IF truthy(error)
           THEN [statusNotes EXCEPT !.pdfAttempts = @ + 1,
                                    !.lastStatusCode = statusCode,
                                    !.pdfConversionFailures = @ + 1,
                                    !.lastError = error]
           ELSE [statusNotes EXCEPT !.pdfAttempts = @ + 1,
                                    !.lastStatusCode = statusCode,
                                    !.pdfConversions = @ + 1,
                                    !.lastError = "null"]
  /\ UNCHANGED <<crawlVars, pc, markdownVars, managerVars, created, crawlers, snapshot, readVars>>

\* setLastError(message)
SetLastError ==
  /\ handler = "statusTracker"
  /\ \E message \in RecordedErrors : statusNotes' = [statusNotes EXCEPT !.lastError = message]
  /\ UNCHANGED <<crawlVars, pc, markdownVars, managerVars, created, crawlers, snapshot, readVars>>

\* getSnapshot(), as GET /status answers it
GetSnapshot ==
  /\ handler = "statusTracker"
  /\ Len(snapshot) < MaxSnapshots
  /\ snapshot' = Append(snapshot, getSnapshot(statusNotes))
  /\ UNCHANGED <<crawlVars, pc, markdownVars, managerVars, created, crawlers, statusNotes, readVars>>

TrackerNext == RecordCrawlResult \/ RecordPdfConversion \/ SetLastError \/ GetSnapshot

TrackerSpec == TrackerInit /\ [][TrackerNext]_vars

----------------------------------------------------------------------------
(* services/browserService.js, shared variant (lines 155-257): concurrent  *)
(* requests on the browser the module obtained when it was loaded.  Each   *)
(* request has its own locals; the run of an object is the request that    *)
(* created it.                                                             *)

MaxRequests == 2

\* mutant: the request keeps the shared browser in its local
requestBrowserShared(shared) == shared

\* browserService.js:196  let browser, context, page: browser is declared
\* and never assigned
requestBrowser(shared) == 0

SharedCrawlInit ==
  /\ handler = "sharedService"
  /\ pc = "idle"
  /\ NoCrawl
  /\ NoMarkdown
  /\ NoManager
  /\ NoService
  /\ NoReads

\* line 170: let sharedBrowser = await getBrowser()
SharedLoaded ==
  /\ handler = "sharedService" /\ pc = "idle"
  /\ objs' = <<Object("browser", 0, 0)>>
  /\ sharedBrowser' = [sharedBrowser EXCEPT !.status = "ready", !.browser = 1]
  /\ pc' = "ready"
  /\ UNCHANGED <<handler, req, targetUrl, browser, context, page, retried, err,
                 navigationAttempts, navigationResponse, finalUrl, processedAsPdf,
                 upstreamStatus, result, sent, totalCrawls, successfulCrawls, log,
                 redirectChain, extraction, verificationVars>>
  /\ UNCHANGED <<browserPromise, lastError, promises, browsers, acquired, instances,
                 closings, crawls>>
  /\ UNCHANGED <<markdownVars, serviceVars, readVars>>

\* what the actions of the requests leave alone
sharedFrame ==
  <<handler, req, pc, targetUrl, browser, context, page, retried, err,
    navigationAttempts, navigationResponse, finalUrl, processedAsPdf, upstreamStatus,
    result, sent, totalCrawls, successfulCrawls, log, redirectChain, extraction,
    verificationVars, markdownVars, managerVars, created, statusNotes, snapshot,
    readVars>>

\* lines 180-196: a request arrives; an invalid one is answered 400 before
\* the try block
SharedArrives ==
  /\ handler = "sharedService" /\ pc = "ready"
  /\ Len(crawlers) < MaxRequests
  /\ \E valid \in BOOLEAN, isPdfByUrl \in BOOLEAN :
       crawlers' = Append(crawlers,
         [at |-> IF valid THEN "try" ELSE "done",
          browser |-> requestBrowser(sharedBrowser.browser), context |-> 0, page |-> 0,
          isPdfByUrl |-> isPdfByUrl, ctype |-> "",
          status |-> IF valid THEN 0 ELSE 400])
  /\ UNCHANGED <<sharedFrame, objs>>

\* lines 203-206: context = await sharedBrowser.newContext(..)
SharedContext ==
  /\ handler = "sharedService"
  /\ \E r \in DOMAIN crawlers :
       /\ crawlers[r].at = "try"
       /\ \/ /\ objs' = Append(objs, Object("context", sharedBrowser.browser, r))
             /\ crawlers' = [crawlers EXCEPT
                  ![r].context = NextId,
                  ![r].at = IF crawlers[r].isPdfByUrl THEN "pdfHandle" ELSE "newPage"]
          \/ /\ crawlers' = [crawlers EXCEPT ![r].at = "catch"]
             /\ UNCHANGED objs
  /\ UNCHANGED sharedFrame

\* lines 215-222: pdfHandle({ context, url }) of a URL that looks like a
\* PDF, and lines 233-238: pdfHandle or htmlHandle of the page and its
\* response; the result is sent, or the handler throws
SharedHandle ==
  /\ handler = "sharedService"
  /\ \E r \in DOMAIN crawlers :
       /\ crawlers[r].at \in {"pdfHandle", "handle"}
       /\ \/ crawlers' = [crawlers EXCEPT ![r].at = "finally", ![r].status = 200]
          \/ crawlers' = [crawlers EXCEPT ![r].at = "catch"]
  /\ UNCHANGED <<sharedFrame, objs>>

\* line 226: page = await context.newPage()
SharedNewPage ==
  /\ handler = "sharedService"
  /\ \E r \in DOMAIN crawlers :
       /\ crawlers[r].at = "newPage"
       /\ \/ /\ objs' = Append(objs, Object("page", crawlers[r].context, r))
             /\ crawlers' = [crawlers EXCEPT ![r].page = NextId, ![r].at = "goto"]
          \/ /\ crawlers' = [crawlers EXCEPT ![r].at = "catch"]
             /\ UNCHANGED objs
  /\ UNCHANGED sharedFrame

\* lines 227-230: response = await page.goto(..); if (!response) throw ..;
\* const ctype = response.headers()['content-type'] ?? ''
SharedGoto ==
  /\ handler = "sharedService"
  /\ \E r \in DOMAIN crawlers :
       /\ crawlers[r].at = "goto"
       /\ \E o \in GotoOutcomes(crawlers[r].page) :
            crawlers' =
              IF o.kind = "response"
                THEN [crawlers EXCEPT ![r].at = "handle", ![r].ctype = o.resp.ctype]
                ELSE [crawlers EXCEPT ![r].at = "catch"]
  /\ UNCHANGED <<sharedFrame, objs>>

\* lines 246-250: catch (err) { .. res.status(500).json(..) }
SharedCatch ==
  /\ handler = "sharedService"
  /\ \E r \in DOMAIN crawlers :
       /\ crawlers[r].at = "catch"
       /\ crawlers' = [crawlers EXCEPT ![r].at = "finally", ![r].status = 500]
  /\ UNCHANGED <<sharedFrame, objs>>

\* lines 251-253: finally { await Promise.all([page?.close(), context?.close(),
\* browser?.close()]) }
SharedFinally ==
  /\ handler = "sharedService"
  /\ \E r \in DOMAIN crawlers :
       /\ crawlers[r].at = "finally"
       /\ objs' = closeAll(objs, cleanupTargets(crawlers[r].page, crawlers[r].context,
                                               crawlers[r].browser))
       /\ crawlers' = [crawlers EXCEPT ![r].at = "done"]
  /\ UNCHANGED sharedFrame

SharedCrawlNext ==
  \/ SharedLoaded \/ SharedArrives \/ SharedContext \/ SharedHandle
  \/ SharedNewPage \/ SharedGoto \/ SharedCatch \/ SharedFinally

SharedCrawlSpec == SharedCrawlInit /\ [][SharedCrawlNext]_vars

----------------------------------------------------------------------------
(* Reading the state and the history *)

Finished == pc = "done"
Events(op) == {i \in DOMAIN log : log[i].op = op}
Answered == Len(sent) = 1
Succeeded == Answered /\ sent[1].payload # "none"
Failed == Answered /\ sent[1].payload = "none"
Created(kind) == {i \in DOMAIN objs : objs[i].kind = kind}

\* the url parameter is missing, is not an absolute URL, or is not http/https
RejectedInput ==
  \/ ~req.url.def
  \/ ~URL(req.url.s).ok
  \/ URL(req.url.s).protocol \notin {"http:", "https:"}

----------------------------------------------------------------------------
(* C1 *)

\* C1, as stated: when handleCrawl has finished, close() has been called on
\* every browser, context and page the invocation created.
C1_CloseCalledOnEveryObject ==
  Finished => \A i \in DOMAIN objs : objs[i].closeCalled

\* a page that closed by itself and for which the handler opened another one
ReplacedAfterClosing(i) ==
  /\ objs[i].kind = "page" /\ objs[i].selfClosed
  /\ \E j \in Created("page") : j > i /\ objs[j].run = objs[i].run

\* C1, amended: when handleCrawl has finished (success, classified failure,
\* exception, or after the retry), every browser, context and page it created
\* is closed, those of a failed first attempt included: close() has been
\* called on it, except on a page that had already closed by itself and that
\* the handler replaced by a new page.
C1_EveryObjectReleased ==
  Finished =>
    \A i \in DOMAIN objs :
      /\ ~objs[i].open
      /\ objs[i].closeCalled \/ ReplacedAfterClosing(i)

\* a retried request has finished; both attempts had a browser, context and page
C1_Witness ==
  /\ Finished /\ retried
  /\ \A r \in {1, 2} : \A k \in {"browser", "context", "page"} :
       \E i \in Created(k) : objs[i].run = r

----------------------------------------------------------------------------
(* C2 *)

\* C2: a request whose url is missing, not an absolute URL or not http/https
\* is answered 400, and no browser, context or page is ever created for it.
C2_RejectedBeforeAnyBrowser ==
  RejectedInput =>
    /\ objs = <<>> /\ browser = 0 /\ context = 0 /\ page = 0
    /\ Events("launch") = {}
    /\ pc \in {"start", "done"}
    /\ Finished => sent = <<ErrorResponse(400, sent[1].error, "")>>

\* an ftp: URL has been rejected
C2_Witness ==
  /\ Finished /\ req.url.def /\ URL(req.url.s).protocol = "ftp:"
  /\ Answered /\ sent[1].status = 400

----------------------------------------------------------------------------
(* C3 *)

Validated == targetUrl # <<>>

\* a success payload, or an error object with a reason
StructuredAnswer ==
  /\ Answered
  /\ \/ sent[1].status = 200 /\ sent[1].payload \in {"html", "pdf"}
     \/ sent[1].status >= 400 /\ sent[1].payload = "none" /\ sent[1].error # ""

\* C3: a request that passed validation eventually ends, with exactly one
\* response (success payload or structured error); at no time have two
\* responses been sent, and the handler never finishes without one.
C3_ExactlyOneResponse ==
  /\ [](Len(sent) <= 1)
  /\ [](Finished => StructuredAnswer)
  /\ (Validated ~> (Finished /\ StructuredAnswer))

\* a crawl whose navigation loop used all its attempts has ended with its answer
C3_Witness ==
  /\ Finished /\ Validated /\ Answered
  /\ navigationAttempts = CHALLENGE_MAX_REFRESHES + 1

----------------------------------------------------------------------------
(* C4 *)

\* destroyed execution context, page navigating, closed session, protocol error
RecoverableClass(e) ==
  \/ e.message \in {MsgContextDestroyed, MsgNavigating, MsgSessionClosed, MsgProtocolError}
  \/ e.type = "closed"

Catches == Events("catch")
FirstCatch == CHOOSE i \in Catches : \A j \in Catches : i <= j

\* C4: runOnce runs at most twice per request; a second run happens only
\* after the first run threw an error of the recoverable class; a failure of
\* the second run, or a failure of the first run outside that class, is
\* answered with an error response and no further run follows.
C4_AtMostOneRetry ==
  handler = "browserService" =>
    /\ Runs <= 2
    /\ Runs = 2 =>
         /\ Catches # {} /\ log[FirstCatch].run = 1
         /\ RecoverableClass(log[FirstCatch].error)
    /\ \A i \in Catches :
         (log[i].run = 2 \/ ~RecoverableClass(log[i].error)) =>
           /\ \A j \in Events("runOnce") : j < i
           /\ Failed /\ sent[1].status = 500
           /\ sent[1].details = log[i].error.message

\* both runs failed and the request has ended
C4_Witness ==
  /\ Finished /\ Runs = 2 /\ Cardinality(Catches) = 2 /\ Failed

----------------------------------------------------------------------------
(* C5 *)

SecondRun == CHOOSE i \in Events("runOnce") : log[i].run = 2

\* C5: when a crawl is retried, close() has been called on the first
\* attempt's page, context and browser before the second attempt starts; the
\* second attempt launches its own browser and creates its own context and
\* page, and nothing it uses or holds is an object of the first attempt.
C5_RetryUsesFreshObjects ==
  Runs = 2 =>
    /\ \A o \in DOMAIN objs :
         objs[o].run = 1 =>
           /\ ~objs[o].open
           /\ \E c \in Events("close") : log[c].obj = o /\ c < SecondRun
    /\ \A i \in DOMAIN log :
         (i > SecondRun /\ log[i].obj # 0) => objs[log[i].obj].run = 2
    /\ \A o \in {browser, context, page} : o # 0 => objs[o].run = 2
    /\ \A k \in {"browser", "context", "page"} :
         Cardinality({o \in Created(k) : objs[o].run = 2}) <= 1
    /\ \A o \in DOMAIN objs :
         (objs[o].run = 2 /\ objs[o].owner # 0) => objs[objs[o].owner].run = 2

\* the second attempt has navigated a page of its own after the first
\* attempt, which had a page too, failed
C5_Witness ==
  /\ Runs = 2 /\ page # 0
  /\ \E o \in Created("page") : objs[o].run = 1
  /\ \E i \in Events("goto") : log[i].run = 2 /\ log[i].obj = page

----------------------------------------------------------------------------
(* C6 *)

\* C6, as stated: once the error response of a crawl that had acquired a
\* browser is sent, the browser, context and page of the request are closed.
C6_ReleasedBeforeErrorResponse ==
  (Failed /\ objs # <<>>) => \A o \in DOMAIN objs : ~objs[o].open

\* C6, amended: whenever a crawl fails after a browser has been acquired, the
\* browser, context and page of the request are closed when the handler
\* finishes; when the error response is sent only the objects of a failed
\* first attempt are guaranteed to be closed already.
C6_ReleasedWhenHandlerFinishes ==
  (Failed /\ objs # <<>>) =>
    /\ \A o \in DOMAIN objs : objs[o].run < Runs => ~objs[o].open
    /\ Finished => \A o \in DOMAIN objs : ~objs[o].open

\* a crawl failed with a browser, context and page in hand and has finished
C6_Witness ==
  /\ Finished /\ Failed /\ sent[1].status = 500
  /\ \A k \in {"browser", "context", "page"} : Created(k) # {}

----------------------------------------------------------------------------
(* C7 *)

\* net::, navigation timeout, ProtocolError, target closed
TransientClass(e) ==
  e.message \in {MsgNet, MsgNavTimeout, MsgProtocolError, MsgTargetClosed}

Gotos == Events("goto")
\* the number of gotos issued up to position i of the history
GotosUpTo(i) == Cardinality({g \in Gotos : g <= i})
LoopPage == CHOOSE o \in Created("page") : \A q \in Created("page") : o <= q
LoopGotos == {g \in Gotos : log[g].obj = LoopPage}

\* C7: the navigation loop calls page.goto at most CHALLENGE_MAX_REFRESHES + 1
\* = 3 times.  A navigation error other than the download signal is followed
\* by another goto exactly if it is transient and fewer than 3 attempts have
\* been made; otherwise it is propagated: the crawl issues no further goto
\* and ends with the failure response carrying that error.
C7_NavigationRetries ==
  handler = "crawl" =>
    /\ CHALLENGE_MAX_REFRESHES + 1 = 3
    /\ Cardinality(LoopGotos) <= 3
    /\ \A i \in Events("gotoError") :
         ~isDownloadStarting(log[i].error) =>
           IF TransientClass(log[i].error) /\ GotosUpTo(i) < 3
             THEN pc = "navigate" \/ \E g \in LoopGotos : g > i
             ELSE /\ \A g \in Gotos : g < i
                  /\ err = log[i].error \/ Failed
                  /\ Answered =>
                       /\ sent[1].status = 500 /\ sent[1].error = "Failed to crawl URL"
                       /\ sent[1].details = log[i].error.message

\* a transient error on the third attempt has been propagated
C7_Witness ==
  /\ handler = "crawl" /\ Finished /\ Failed
  /\ \E i \in Events("gotoError") :
       TransientClass(log[i].error) /\ GotosUpTo(i) = 3

----------------------------------------------------------------------------
(* C8 *)

Last(S) == CHOOSE x \in S : \A y \in S : y <= x

\* the last known URL at position i of the history: the URL of the latest
\* navigation response before i, the requested URL if there is none
LastKnownUrl(i) ==
  LET before == {r \in Events("response") : r < i} IN
  IF before = {} THEN targetUrl ELSE log[Last(before)].url

\* C8: every goto of the crawl (the first one, every later one of the
\* navigation loop, and the one on a reopened page) is directed at the last
\* known URL: the URL of the most recent navigation response of this crawl,
\* or the requested URL if no response has been obtained yet.
C8_GotoLastKnownUrl ==
  handler = "crawl" => \A g \in Gotos : log[g].url = LastKnownUrl(g)

\* the third goto of the loop went to a redirect target, not to the requested URL
C8_Witness ==
  /\ handler = "crawl"
  /\ \E g \in LoopGotos :
       GotosUpTo(g) = 3 /\ log[g].url # targetUrl /\ log[g].url = LastKnownUrl(g)

----------------------------------------------------------------------------
(* C9 *)

Processing == Events("html") \cup Events("pdf")

\* C9: once a navigation has resolved without a response, nothing is
\* extracted, converted or navigated any more, no success payload is sent,
\* and the request ends with the failure 'No response received from target URL'.
C9_NoResponseFails ==
  \A n \in Events("null") :
    /\ \A j \in Processing \cup Gotos \cup Events("runOnce") : j < n
    /\ ~Succeeded
    /\ Finished =>
         /\ Failed /\ sent[1].status \in {500, 502}
         /\ sent[1].error = MsgNoResponse \/ sent[1].details = MsgNoResponse

\* the crawl handler answered 502 after a goto that resolved with null
C9_Witness ==
  /\ Finished /\ Events("null") # {} /\ ~processedAsPdf
  /\ sent = <<ErrorResponse(502, MsgNoResponse, "")>>

----------------------------------------------------------------------------
(* C10 *)

PdfUrls == {UrlPdf, UrlPdfQuery}

\* attempt r was classified as PDF: by the URL, by the content-type of its
\* last navigation response, or by the download signal
ClassifiedPdf(r) ==
  LET rs == {i \in Events("response") : log[i].run = r} IN
  \/ targetUrl \in PdfUrls
  \/ rs # {} /\ log[Last(rs)].resp.ctype = "application/pdf"
  \/ /\ handler = "crawl"
     /\ \E i \in Events("gotoError") : log[i].error.message = MsgDownload

\* C10, as stated: a successfully completed crawl has run exactly one of the
\* two processing paths, the PDF path iff it was classified as PDF: HTML
\* extraction has not run in a crawl classified as PDF, nor PDF conversion in
\* one classified as HTML.
C10_ExactlyOnePathPerCrawl ==
  (Finished /\ Succeeded) =>
    /\ (Events("pdf") = {}) # (Events("html") = {})
    /\ Events("pdf") # {} <=> ClassifiedPdf(CurRun)

\* C10, amended: every attempt of a crawl runs at most one of the two
\* processing paths, the PDF path only if the attempt was classified as PDF
\* and the HTML path only if it was not; the attempt that completes the crawl
\* successfully has run exactly one, and the payload is its result.  (A
\* retried request may have run the other path in its failed first attempt.)
C10_ExactlyOnePathPerAttempt ==
  /\ \A i \in Events("pdf") : ClassifiedPdf(log[i].run)
  /\ \A i \in Events("html") : ~ClassifiedPdf(log[i].run)
  /\ \A r \in {1, 2} : Cardinality({i \in Processing : log[i].run = r}) <= 1
  /\ (Finished /\ Succeeded) =>
       \E i \in Processing :
         /\ log[i].run = CurRun
         /\ sent[1].payload = log[i].op
         /\ log[i].op = "pdf" <=> ClassifiedPdf(CurRun)

\* a crawl classified as PDF by its response's content-type has succeeded
C10_Witness ==
  /\ Finished /\ Succeeded /\ sent[1].payload = "pdf"
  /\ targetUrl \notin PdfUrls
  /\ \E i \in Events("response") : log[i].resp.ctype = "application/pdf"

----------------------------------------------------------------------------
(* C11 *)

\* C11: for a request URL that ends in .pdf (a query string or fragment may
\* follow) no page is ever created and page.goto is never called; once the
\* browser context exists the next thing done is the PDF fetch, and no HTML
\* extraction runs.
C11_PdfUrlSkipsNavigation ==
  (Validated /\ targetUrl \in PdfUrls) =>
    /\ Created("page") = {} /\ page = 0
    /\ Gotos = {} /\ Events("html") = {}
    /\ \A i \in Events("newContext") : i < Len(log) => log[i + 1].op = "pdf"
    /\ (Events("newContext") # {} /\ pc \in {"respond", "finally", "done"})
         => Events("pdf") # {}

\* the crawl handler has converted a PDF requested as /doc.PDF?x=1
C11_Witness ==
  /\ handler = "crawl" /\ Finished /\ Succeeded
  /\ targetUrl = UrlPdfQuery /\ sent[1].payload = "pdf"

----------------------------------------------------------------------------
(* C12 *)

Downloads == {i \in Events("gotoError") : log[i].error.message = MsgDownload}

\* C12: when page.goto fails with the download signal, the crawl is
\* classified as PDF: no goto follows, close() has been called on the page,
\* HTML extraction never runs, and the PDF is fetched from the last known URL:
\* the URL the page had reached, or the requested URL if it had reached none.
C12_DownloadIsPdf ==
  handler = "crawl" =>
    \A i \in Downloads :
      /\ processedAsPdf
      /\ \A g \in Gotos : g < i
      /\ ~objs[log[i].obj].open
      /\ \E c \in Events("close") : log[c].obj = log[i].obj
      /\ Events("html") = {}
      /\ \A p \in Events("pdf") : p > i /\ log[p].url = LastKnownUrl(i)
      /\ pc \in {"respond", "catch", "finally", "done"} => Events("pdf") # {}

\* the download started on a later attempt, after the page had been
\* redirected away from the requested URL, and the PDF was converted
C12_Witness ==
  /\ handler = "crawl" /\ Finished /\ Succeeded
  /\ \E i \in Downloads : LastKnownUrl(i) # targetUrl /\ GotosUpTo(i) >= 2
  /\ Events("pdf") # {}

----------------------------------------------------------------------------
(* C15 *)

\* C15: a crawl that completes (the navigation yielded a response and the
\* processing succeeded) is answered with HTTP status 200 whatever the
\* upstream status was, 4xx and 5xx included.
C15_CompletedCrawlIs200 ==
  handler = "crawl" =>
    /\ Succeeded => sent[1].status = 200
    /\ (result # NoResult /\ pc \in {"finally", "done"}) =>
         Succeeded /\ sent[1].status = 200

\* the page answered 503 on every attempt and the crawl completed
C15_Witness ==
  /\ handler = "crawl" /\ Finished /\ Succeeded
  /\ upstreamStatus = 503 /\ sent[1].payload = "html"

----------------------------------------------------------------------------
(* C16 *)

\* C16, as stated: when the target page answered 4xx/5xx and the crawl
\* completed, headers.statusCode of the payload equals the upstream status.
C16_UpstreamStatusInPayload ==
  (handler = "crawl" /\ Succeeded /\ ~processedAsPdf /\ upstreamStatus >= 400) =>
    sent[1].statusCode = upstreamStatus

----------------------------------------------------------------------------
(* C14 *)

\* the navigation responses of the current run
Navigated == {i \in Events("response") : log[i].run = CurRun}

----------------------------------------------------------------------------
(* C20 *)

EvaluationDestroyed == extraction.evaluated.message = MsgContextDestroyed

----------------------------------------------------------------------------
(* The redirect limit and the verification poller (VerificationSpec) *)

\* the answers that report an exceeded redirect limit
RedirectLimitAnswers == {i \in DOMAIN sent : sent[i].status = 310}

\* C13: with the limit of 5, a navigation request that went through at most
\* 5 redirects is never flagged or aborted for its redirect count; the
\* request of the 6th redirect is flagged and aborted, no further redirect
\* is followed, and the crawl is answered with the redirect-limit error
\* that reports redirects = 6, the length of the chain observed; no other
\* crawl gets that answer.
C13_RedirectLimit ==
  handler = "server" =>
    /\ request <= 6
    /\ request <= 5 => ~redirectLimitExceeded
    /\ (request = 6 /\ pc # "request") => redirectLimitExceeded
    /\ redirectLimitExceeded => redirectCountObserved = 6
    /\ (redirectLimitExceeded /\ pc \in {"finally", "done"}) =>
         sent = <<RedirectResponse(MsgRedirectLimit, 6)>>
    /\ RedirectLimitAnswers # {} => redirectLimitExceeded
    /\ (request = 5 /\ pc = "done" /\ navigationResponse # NoResponse) =>
         \A i \in DOMAIN sent : sent[i].status \notin {310}

\* a crawl of six redirects has been answered with the redirect-limit error
C13_Witness ==
  /\ handler = "server" /\ pc = "done"
  /\ request = 6 /\ redirectLimitExceeded
  /\ sent = <<RedirectResponse(MsgRedirectLimit, 6)>>

\* a crawl of five redirects has succeeded
C13_FiveRedirectsSucceed ==
  /\ handler = "server" /\ pc = "done"
  /\ request = 5 /\ Succeeded

\* the answers that report a verification challenge that did not clear
VerificationTimeouts == {i \in DOMAIN sent : sent[i].status = 524}

\* the page was served without a challenge and every read of its text
\* succeeded: no read of it matches a challenge pattern
NeverChallenged == challenge = "none" /\ ~poll.failed

\* C17: when the text of the page matches no verification-challenge pattern
\* on the first read, the poller returns cleared = true without having
\* slept, the crawl goes on to the extraction, and it is never answered
\* with the verification-timeout error.
C17_NoChallengeClearsAtOnce ==
  (verificationResult.returned /\ NeverChallenged) =>
    /\ verificationResult.cleared
    /\ poll.reads = 1 /\ poll.sleeps = 0
    /\ VerificationTimeouts = {}

\* the same statement for the handler of server.js, whose poller is compiled
\* with the two constants server.js defines
C17_ServerClearsAtOnce == handler = "server" => C17_NoChallengeClearsAtOnce

\* a crawl of server.js whose page showed no challenge has succeeded
C17_ServerWitness ==
  /\ handler = "server" /\ pc = "done" /\ Succeeded
  /\ NeverChallenged /\ poll.reads = 1 /\ poll.sleeps = 0

\* every read of the page text succeeded and matched a challenge pattern
AlwaysChallenged == poll.reads >= 1 /\ ~poll.failed /\ poll.lastRead = "challenge"

\* C18: when every read of the page text up to the maximum total wait
\* (45000 ms) matches a verification-challenge pattern, the poller returns
\* cleared = false, not before that wait is over, and the crawl is answered
\* with the verification-timeout error alone: no Markdown, no hash.
C18_ChallengeTimesOut ==
  (verificationResult.returned /\ AlwaysChallenged) =>
    /\ ~verificationResult.cleared
    /\ verificationResult.waitedMs >= 45000
    /\ result = NoResult
    /\ pc \in {"verified", "finally", "done"}
    /\ pc \in {"finally", "done"} =>
         /\ sent = <<ErrorResponse(524, MsgVerification, "")>>
         /\ sent[1].payload = "none"

\* a crawl whose page showed the challenge at every read has been answered
\* with the verification-timeout error
C18_Witness ==
  /\ handler = "server" /\ pc = "done"
  /\ verificationResult.returned /\ AlwaysChallenged
  /\ poll.reads >= 2
  /\ sent = <<ErrorResponse(524, MsgVerification, "")>>

Polling == pc \in {"pollCheck", "pollRead", "pollSleep"}

\* the last read of the page text failed
ReadFailed == poll.reads >= 1 /\ poll.lastRead = "error"

\* C19: a read of the page text that fails during a poll is ignored. While
\* the poller runs no error is pending and nothing is answered; a failed
\* read never makes the poller return (cleared is only ever the verdict of a
\* read that succeeded and matched no pattern); after it the poller sleeps
\* exactly one poll interval (2000 ms), and then reads again if the deadline
\* (45000 ms) has not passed and returns cleared = false if it has.
C19_ReadFailureIgnored ==
  /\ [](Polling => err = NoError /\ sent = <<>>)
  /\ []((ReadFailed /\ pc = "pollSleep") => ~verificationResult.returned)
  /\ [](verificationResult.cleared => poll.lastRead = "clear")
  /\ [][(ReadFailed /\ pc = "pollRead") => poll'.reads = poll.reads + 1]_vars
  /\ [][(ReadFailed /\ pc = "pollSleep") =>
          /\ pc' = "pollCheck"
          /\ elapsed' = elapsed + 2000
          /\ poll'.sleeps = poll.sleeps + 1 /\ poll'.reads = poll.reads]_vars
  /\ [][(ReadFailed /\ pc = "pollCheck") =>
          IF elapsed < 45000
            THEN pc' = "pollRead" /\ ~verificationResult'.returned
            ELSE pc' = "verified" /\ ~verificationResult'.cleared]_vars

\* after a read that failed the poller slept, read again, and the page had cleared
C19_Witness ==
  /\ handler = "server" /\ pc = "verified"
  /\ poll.failed /\ poll.lastRead = "clear" /\ poll.sleeps >= 1
  /\ verificationResult.cleared

----------------------------------------------------------------------------
(* The Markdown, its hash and the metadata (MarkdownSpec) *)

\* C21: in every result of processHtml and of processPdfBuffer the hash is
\* the SHA-256 of exactly the Markdown string of that result, which is the
\* cleaned Markdown; so two results carry the same hash exactly when they
\* carry the same Markdown.
C21_HashOfReturnedMarkdown ==
  /\ \A i \in DOMAIN results : results[i].hash = sha256(results[i].markdown)
  /\ pc = "processed" => results[Len(results)].markdown = output
  /\ \A i, j \in DOMAIN results :
       results[i].markdown = results[j].markdown <=> results[i].hash = results[j].hash

\* an HTML result and a PDF result carry the same Markdown, which cleaning
\* changed for the second of them
C21_Witness ==
  /\ Len(results) = 2
  /\ results[1].kind # results[2].kind
  /\ results[1].markdown = results[2].markdown
  /\ results[2].markdown # <<>>
  /\ input # output

\* C22: cleanMarkdown is idempotent: cleaning what it returned returns the
\* same Markdown again.
C22_CleanMarkdownIdempotent ==
  pc = "cleanedAgain" => reapplied = output

\* the target of the link or image of a Markdown string: what stands between
\* the parentheses
LinkTarget(markdown) ==
  SubSeq(markdown, IndexOf(markdown, 1, "(") + 1, Len(markdown) - 1)

\* the query parameters of a target, in their order
QueryParams(target) ==
  LET h == IndexOf(target, 1, "#")
      q == IndexOf(SubSeq(target, 1, h - 1), 1, "?")
  IN searchParams(SubSeq(target, q + 1, h - 1))

\* the target is an http or https URL
HttpTarget(target) == target # <<>> /\ target[1] \in {"http:", "https:", "HTTP:", "HTTPS:"}

\* the parameter names link sanitization is to remove
TrackingName(key) ==
  \/ [k \in DOMAIN key |-> ToLowerCase(key[k])] \in {<<"gclid">>, <<"fbclid">>, <<"igshid">>}
  \/ key # <<>> /\ ToLowerCase(key[1]) \in {"utm_", "ref", "mc_", "smid"}

\* C23: the query parameters of a sanitized http/https link or image target
\* are those of the original target whose names are not tracking names
\* (gclid, fbclid, igshid, or starting with utm_, ref, mc_, smid, in any
\* case), each with its value and in the original order.
C23_TrackingParametersRemoved ==
  (pc = "normalized" /\ HttpTarget(LinkTarget(input))) =>
     QueryParams(LinkTarget(output))
       = SelectSeq(QueryParams(LinkTarget(input)), LAMBDA p : ~TrackingName(p.key))

\* a link whose target carries utm_source, id and gclid keeps id alone
C23_Witness ==
  /\ pc = "normalized"
  /\ LinkTarget(input)
       = <<"https:", "//h", "/a", "?", "utm_", "source", "=", "1", "&",
           "id", "=", "2", "&", "gclid", "=", "3">>
  /\ LinkTarget(output) = <<"https:", "//h", "/a", "?", "id", "=", "2">>

\* C24: the h1 list of the metadata holds every distinct non-empty H1 text
\* of the crawled document, each once, in the order of first occurrence.
C24_AllDistinctHeadings ==
  pc = "extracted" => output.h1 = distinct(texts(input.headings))

----------------------------------------------------------------------------
(* The contexts and pages of a request (Spec) *)

\* the objects of a kind that are open
OpenOf(kind) == {i \in DOMAIN objs : objs[i].kind = kind /\ objs[i].open}

\* the objects of a kind created so far
CreatedOf(kind) == {i \in DOMAIN objs : objs[i].kind = kind}

\* C25: at every moment of a crawl request at most one browser context and
\* at most one page of the request is open, and every context or page other
\* than the one created last is closed (so a further one was created only
\* after the previous one had been closed).
C25_OneContextOnePage ==
  \A kind \in {"context", "page"} :
    /\ Cardinality(OpenOf(kind)) <= 1
    /\ \A i, j \in CreatedOf(kind) : i < j => ~objs[i].open

\* a request that created a second context and a second page, after the
\* first ones were closed, and holds both open
C25_Witness ==
  /\ Cardinality(CreatedOf("context")) = 2 /\ Cardinality(OpenOf("context")) = 1
  /\ Cardinality(CreatedOf("page")) = 2 /\ Cardinality(OpenOf("page")) = 1

\* a crawl that opened a new page in its context after the first page closed
C25_ReopenedPageWitness ==
  /\ handler = "crawl"
  /\ Cardinality(CreatedOf("context")) = 1
  /\ Cardinality(CreatedOf("page")) = 2 /\ Cardinality(OpenOf("page")) = 1

----------------------------------------------------------------------------
(* The shared browser and the per-request browsers (ManagerSpec) *)

\* the shared acquisitions that are in flight, or that succeeded and whose
\* browser is still connected
LiveShared ==
  {p \in DOMAIN promises :
     \/ promises[p].status = "pending"
     \/ promises[p].status = "fulfilled" /\ browsers[promises[p].browser].connected}

\* C26: while a shared acquisition is in flight, or has succeeded and its
\* browser is still connected, getBrowser starts no other one: at most one
\* shared acquisition is in flight or connected at any time.
C26_OneSharedBrowser == Cardinality(LiveShared) <= 1

\* C27: every shared-mode crawl obtains its context from a browser that is
\* connected, also after the shared browser disconnected.
C27_ContextFromConnectedBrowser ==
  \A i \in DOMAIN crawls : crawls[i].connected

\* C28: neither createNewBrowserInstance nor the disconnection (by close or
\* by loss) of a browser it created changes the shared browserPromise.
C28_SharedPromiseUntouched ==
  /\ [][Len(instances') > Len(instances) => browserPromise' = browserPromise]_vars
  /\ [][(\E b \in DOMAIN browsers :
            /\ browsers[b].by = "createNewBrowserInstance"
            /\ browsers[b].connected /\ ~browsers'[b].connected)
          => browserPromise' = browserPromise]_vars

\* the closeSharedBrowser call c returns in this step
Returns(c) ==
  /\ c \in DOMAIN closings'
  /\ closings'[c].at = "returned"
  /\ c \in DOMAIN closings => closings[c].at # "returned"

\* C29: no closeSharedBrowser call throws, whatever became of the promise it
\* found (none, rejected, fulfilled, already released by another call); when
\* a call returns, browserPromise is null and the browser of the promise it
\* awaited, if that promise was fulfilled, is disconnected.
C29_CloseSharedBrowserIdempotent ==
  /\ [](\A c \in DOMAIN closings : closings[c].at # "threw")
  /\ [][\A c \in 1..MaxClosings :
          Returns(c) =>
            /\ browserPromise' = 0
            /\ (closings'[c].promise # 0
                 /\ promises'[closings'[c].promise].status = "fulfilled")
                => ~browsers'[promises'[closings'[c].promise].browser].connected]_vars

\* closeSharedBrowser was called while an acquisition was in flight that
\* then failed, and returned; it was called again and returned at once
C29_Witness ==
  /\ Len(closings) = 2
  /\ closings[1].at = "returned" /\ closings[1].promise # 0
  /\ promises[closings[1].promise].status = "rejected"
  /\ closings[2].at = "returned" /\ closings[2].promise = 0

\* closeSharedBrowser closed the shared browser, and a second call returned
C29_ClosedTwiceWitness ==
  /\ Len(closings) = 2
  /\ closings[1].at = "returned" /\ closings[1].browser # 0
  /\ ~browsers[closings[1].browser].connected
  /\ closings[2].at = "returned"

\* closeSharedBrowser was called before any getBrowser call
C29_NeverAcquiredWitness ==
  /\ promises = <<>>
  /\ Len(closings) = 2 /\ closings[1].at = "returned" /\ closings[2].at = "returned"

\* the failures an error surfaced by the manager records
Recorded(error) == {error.underlying}

\* C30: when every strategy failed, the error thrown to the caller records
\* the failure of each strategy tried: of the five of getBrowser, of the
\* four of createNewBrowserInstance.
C30_EveryFailureRecorded ==
  /\ \A p \in DOMAIN promises :
       promises[p].status = "rejected" =>
         Recorded(promises[p].error) = {Strategies[k] : k \in DOMAIN Strategies}
  /\ \A i \in DOMAIN instances :
       instances[i].browser = 0 =>
         Recorded(instances[i].error) = {FreshStrategies[k] : k \in DOMAIN FreshStrategies}

----------------------------------------------------------------------------
(* Failure responses *)

\* C31: no error response of the crawl handler carries the stack frames of
\* the error thrown: its details hold a message only.
C31_NoStackTraceExposed ==
  handler = "crawl" => \A i \in DOMAIN sent : sent[i].payload = "none" => ~sent[i].stack

\* C32: the server handler answers the failure of a crawl of a valid URL
\* with 310 exactly when the redirect limit was exceeded, with 502 exactly
\* when the navigation gave no response, with 524 exactly when the
\* verification challenge did not clear, and with 500 exactly when an error
\* was caught: four pairwise distinct codes, one per kind of failure.
C32_DistinctFailureCodes ==
  (handler = "server" /\ Answered /\ sent[1].payload = "none" /\ targetUrl # <<>>) =>
    /\ sent[1].status \in {310, 502, 524, 500}
    /\ sent[1].status = 310 <=> redirectLimitExceeded
    /\ sent[1].status = 502 <=> sent[1].error = MsgNoResponse
    /\ sent[1].status = 524 <=> (verificationResult.returned /\ ~verificationResult.cleared)
    /\ sent[1].status = 500 <=> sent[1].error = "Failed to crawl URL"

\* the server handler has answered a navigation without response
C32_Witness ==
  /\ handler = "server" /\ Finished
  /\ sent = <<ErrorResponse(502, MsgNoResponse, "")>>
  /\ ~redirectLimitExceeded /\ ~verificationResult.returned

\* the server handler has answered a verification timeout
C32_TimeoutWitness ==
  /\ handler = "server" /\ Finished
  /\ sent[1].status = 524 /\ ~redirectLimitExceeded

\* the server handler has answered an exceeded redirect limit
C32_RedirectWitness ==
  /\ handler = "server" /\ Finished
  /\ sent[1].status = 310 /\ ~verificationResult.returned

\* the server handler has answered an error it caught
C32_GenericWitness ==
  /\ handler = "server" /\ Finished
  /\ sent[1].status = 500 /\ sent[1].stack

----------------------------------------------------------------------------
(* The root of the extraction (MarkdownSpec) *)

\* the score of node k of a document as the specification states it; node 0
\* is the body, node k the k-th candidate
ScoreOf(document, k) ==
  LET node == IF k = 0 THEN document.body ELSE document.candidates[k]
  IN node.text + 35 * node.structure

\* C33: the root is a node of maximal score among the body and the
\* candidates, the first of them in the order body, candidates (a later
\* node wins only with a strictly greater score); if that score is below
\* 150 the root is the body.
C33_RootIsFirstMaximum ==
  pc = "rooted" =>
    LET all == 0..Len(input.candidates)
        highest == CHOOSE k \in all :
                     /\ \A j \in all : ScoreOf(input, j) <= ScoreOf(input, k)
                     /\ \A j \in all : j < k => ScoreOf(input, j) < ScoreOf(input, k)
    IN output.root = IF ScoreOf(input, highest) < 150 THEN 0 ELSE highest

\* the second of two candidates of equal score above the body's: the first
\* one is the root
C33_Witness ==
  /\ pc = "rooted"
  /\ Len(input.candidates) = 2
  /\ ScoreOf(input, 1) = ScoreOf(input, 2)
  /\ ScoreOf(input, 0) < ScoreOf(input, 1)
  /\ ScoreOf(input, 1) >= 150
  /\ output.root = 1

\* a candidate scores highest, but below the floor: the root is the body
C33_FloorWitness ==
  /\ pc = "rooted"
  /\ Len(input.candidates) = 1
  /\ ScoreOf(input, 0) < ScoreOf(input, 1) /\ ScoreOf(input, 1) = 115
  /\ output.root = 0

\* every candidate lies within the body: its text and its structural
\* elements are among the body's
Contained(document) ==
  \A k \in DOMAIN document.candidates :
    /\ document.candidates[k].text <= document.body.text
    /\ document.candidates[k].structure <= document.body.structure

\* C38: when every candidate lies within the body, the root is the body.
C38_BodyIsRoot ==
  (pc = "rooted" /\ Contained(input)) => output.root = 0

\* a candidate that holds all the body holds: same score, above the floor,
\* and the body is the root
C38_Witness ==
  /\ pc = "rooted"
  /\ Len(input.candidates) >= 1
  /\ Contained(input)
  /\ input.candidates[1] = input.body
  /\ ScoreOf(input, 0) >= 150
  /\ output.root = 0

----------------------------------------------------------------------------
(* The page of htmlHandler.handleRequest (HtmlHandlerSpec) *)

\* the pages handleRequest created itself
CreatedByHandleRequest ==
  {log[k].obj : k \in {j \in DOMAIN log : log[j].op = "newPage"}}

HandleRequestEnded == handler = "htmlHandler" /\ pc \in {"returned", "thrown"}

\* C34: when htmlHandler.handleRequest has returned or thrown, a page is
\* closed (and close() was called on it) if and only if handleRequest created
\* it: the page the caller passed in is still open, the page it created is
\* closed, on success and on failure alike.
C34_ClosesOnlyItsOwnPage ==
  HandleRequestEnded =>
    \A i \in CreatedOf("page") :
      /\ objs[i].closeCalled <=> i \in CreatedByHandleRequest
      /\ objs[i].open <=> i \notin CreatedByHandleRequest

\* a page was passed in, handleRequest threw for the missing response, and
\* the page is open
C34_Witness ==
  /\ HandleRequestEnded /\ pc = "thrown"
  /\ page # 0 /\ page \notin CreatedByHandleRequest
  /\ err.message = MsgNoResponseFromPage
  /\ objs[page].open

\* a page was created, its goto failed, and the page is closed
C34_FailedGotoWitness ==
  /\ HandleRequestEnded /\ pc = "thrown"
  /\ page \in CreatedByHandleRequest
  /\ navigationResponse = NoResponse
  /\ err.message \in GotoErrors
  /\ ~objs[page].open

\* a page was created, processHtml returned, and the page is closed
C34_SuccessWitness ==
  /\ HandleRequestEnded /\ pc = "returned"
  /\ page \in CreatedByHandleRequest
  /\ result.kind = "html"
  /\ ~objs[page].open

----------------------------------------------------------------------------
(* The counters of statusTracker.js (TrackerSpec) *)

\* C40: after any sequence of recordCrawlResult and recordPdfConversion
\* calls totalCrawls = successfulCrawls + failedCrawls and pdfAttempts =
\* pdfConversions + pdfConversionFailures, and in every snapshot failedTotal
\* = failedCrawls + pdfConversionFailures, each counter of the snapshot being
\* the one statusNotes held when it was taken.
C40_CountersAddUp ==
  handler = "statusTracker" =>
    /\ statusNotes.totalCrawls = statusNotes.successfulCrawls + statusNotes.failedCrawls
    /\ statusNotes.pdfAttempts =
         statusNotes.pdfConversions + statusNotes.pdfConversionFailures
    /\ \A i \in DOMAIN snapshot :
         /\ snapshot[i].failedTotal =
              snapshot[i].failedCrawls + snapshot[i].pdfConversionFailures
         /\ snapshot[i].totalCrawls =
              snapshot[i].successfulCrawls + snapshot[i].failedCrawls
         /\ snapshot[i].pdfAttempts =
              snapshot[i].pdfConversions + snapshot[i].pdfConversionFailures
         /\ i = Len(snapshot) =>
              /\ snapshot[i].failedCrawls <= statusNotes.failedCrawls
              /\ snapshot[i].pdfConversionFailures <= statusNotes.pdfConversionFailures

\* a snapshot taken after a failed crawl, a successful crawl and a failed
\* PDF conversion
C40_Witness ==
  /\ handler = "statusTracker"
  /\ snapshot # <<>>
  /\ snapshot[Len(snapshot)].failedCrawls = 1
  /\ snapshot[Len(snapshot)].successfulCrawls = 1
  /\ snapshot[Len(snapshot)].pdfConversionFailures = 1
  /\ snapshot[Len(snapshot)].failedTotal = 2

----------------------------------------------------------------------------
(* The requests of the shared-browser mode (SharedCrawlSpec) *)

\* the contexts and pages request r created
OwnObjects(r) ==
  {i \in DOMAIN objs : objs[i].kind \in {"context", "page"} /\ objs[i].run = r}

\* C35: in shared-browser mode the shared browser is never closed, a context
\* or page is closed only once the request that created it has run its
\* finally block (so those of a request still under way are open, whatever
\* the other requests did), and a request that has ended has closed its own.
C35_ClosesOnlyItsOwn ==
  handler = "sharedService" =>
    /\ \A b \in CreatedOf("browser") : objs[b].open /\ ~objs[b].closeCalled
    /\ \A r \in DOMAIN crawlers :
         \A i \in OwnObjects(r) : ~objs[i].open <=> crawlers[r].at = "done"

\* one request has failed and ended, its context and page are closed; the
\* other holds an open page in an open context of the open shared browser
C35_Witness ==
  /\ handler = "sharedService"
  /\ \E r, q \in DOMAIN crawlers :
       /\ crawlers[r].at = "done" /\ crawlers[r].status = 500
       /\ crawlers[r].page # 0 /\ ~objs[crawlers[r].page].open
       /\ ~objs[crawlers[r].context].open
       /\ crawlers[q].at = "handle"
       /\ objs[crawlers[q].page].open /\ objs[crawlers[q].context].open
       /\ objs[sharedBrowser.browser].open

----------------------------------------------------------------------------
(* The responses the navigation loop does not accept (Spec) *)

\* the responses of the history that are not a PDF and have a status >= 400
RefusedResponses ==
  {i \in Events("response") :
     ~isPdfContentType(log[i].resp.ctype) /\ log[i].resp.status >= 400}

\* C36: in the navigation loop of the crawl handler a response that is not
\* a PDF and has a status >= 400 is followed by another goto of the same
\* page, to that response's URL, if fewer than 3 attempts have been made.
\* After the third attempt the loop issues no further goto, the response is
\* kept as navigationResponse, the crawl is not treated as a PDF and no
\* "no response" failure is sent: the crawl goes on to the HTML extraction
\* (unless the page closed by itself meanwhile and could not be reopened).
C36_RefusedResponseRetried ==
  handler = "crawl" =>
    \A i \in RefusedResponses :
      IF GotosUpTo(i) < 3
        THEN IF i = Len(log)
               THEN pc = "navigate"
               ELSE /\ log[i + 1].op = "goto"
                    /\ log[i + 1].obj = log[i].obj
                    /\ log[i + 1].url = log[i].resp.url
        ELSE /\ \A g \in LoopGotos : g < i
             /\ navigationResponse = log[i].resp
             /\ ~processedAsPdf
             /\ Events("pdf") = {}
             /\ \A k \in DOMAIN sent : sent[k].status # 502
             /\ \/ pc \in {"afterNavigation", "reopenPage", "html"}
                \/ \E h \in Events("html") : h > i
                \/ objs[log[i].obj].selfClosed /\ (err # NoError \/ Failed)

\* the third attempt was answered 503 like the two before it, and the
\* page's content has been extracted and sent
C36_Witness ==
  /\ handler = "crawl" /\ Answered
  /\ Cardinality(RefusedResponses) = 3
  /\ result.kind = "html"
  /\ sent[1].payload # "none"

\* a response with status 503 on the second attempt was followed by a goto
\* to its URL, which differs from the requested one
C36_RetryWitness ==
  /\ handler = "crawl"
  /\ \E i \in RefusedResponses :
       /\ GotosUpTo(i) = 2 /\ i < Len(log)
       /\ log[i + 1].op = "goto" /\ log[i + 1].url = log[i].resp.url
       /\ log[i].resp.url # targetUrl

----------------------------------------------------------------------------
(* The page state the metadata and the Markdown are read from (VerificationSpec) *)

\* C37: in an HTML crawl that was answered with its content, the metadata
\* and the content converted to Markdown were both read from the page after
\* the verification challenge had cleared, not from the interstitial.
C37_MetadataAndMarkdownOfOnePage ==
  handler \in {"server", "crawlService"} /\ Succeeded /\ result.kind = "html" =>
    metadata = "clear" /\ fullHtml = "clear"

----------------------------------------------------------------------------
(* The browsers getBrowser launched (ManagerSpec) *)

\* only getBrowser and closeSharedBrowser were called, and no browser
\* disconnected except by the close() of closeSharedBrowser
OnlyGetAndClose ==
  /\ handler = "manager"
  /\ instances = <<>>
  /\ \A b \in DOMAIN browsers :
       ~browsers[b].connected => \E c \in DOMAIN closings : closings[c].browser = b

\* browser b is the one the shared promise resolved with
HeldByPromise(b) ==
  /\ browserPromise # 0
  /\ promises[browserPromise].status = "fulfilled"
  /\ promises[browserPromise].browser = b

\* C39: when only getBrowser and closeSharedBrowser are called, every
\* browser that getBrowser launched and that has not been closed is the one
\* the shared promise holds (so that a later closeSharedBrowser closes it).
C39_NoOrphanedBrowser ==
  OnlyGetAndClose =>
    \A b \in DOMAIN browsers :
      browsers[b].connected /\ browsers[b].by = "getBrowser" => HeldByPromise(b)

====
